---- MODULE Spec2Model ----
\* Mini-Agent: the ACP bridge (mini_agent/acp/__init__.py) and the model
\* client (mini_agent/llm.py) as a state machine.
\*
\* Python values are modelled as follows.
\*   str            a TLA+ string (Len, \o and SubSeq act on strings in TLC)
\*   None           <<>>  ; an optional value v is <<v>> (see None, Some)
\*   list           a sequence
\*   dict           a sequence of <<key, value>> pairs in insertion order
\*   object         a record of its fields
EXTENDS Integers, Sequences, FiniteSets, TLC

\* ---------------------------------------------------------------- bounds

\* Largest agent.max_steps a configuration sets.
MaxSteps == 2
\* Largest number of tool_use segments the backend puts in one response.
MaxCalls == 2
\* Number of prompt requests the client sends (over all sessions).
MaxPrompts == 2
\* Loop iterations the prompts of one run may take in total (the sum of max_steps
\* over the prompts the client sends).
StepBudget == 2
\* Number of cancel notifications the client sends (over all sessions).
MaxCancels == 1
\* Number of new-session requests the client sends.
MaxSessions == 2

\* ---------------------------------------------------------------- values

None == <<>>

Some(v) == <<v>>

IsNone(o) == o = <<>>

\* The value an optional holds (only used where the optional is not None).
Val(o) == o[1]

\* Python truthiness of an Optional[str]: neither None nor "".
TruthyOptStr(o) == o # None /\ Val(o) # ""

\* Python truthiness of an Optional[list]: neither None nor [].
TruthyOptList(o) == o # None /\ Val(o) # <<>>

\* The values of an argument mapping carry their Python type.
PyStr(v) == [t |-> "str", v |-> v]

PyInt(v) == [t |-> "int", v |-> v]

PyBool(v) == [t |-> "bool", v |-> v]

\* ---------------------------------------------------------------- text

UpperChars == "ABCDEFGHIJKLMNOPQRSTUVWXYZ"

LowerChars == "abcdefghijklmnopqrstuvwxyz"

\* str.lower() on one character.
LowerChar(c) ==
    IF \E i \in 1..Len(UpperChars) : SubSeq(UpperChars, i, i) = c
    THEN LET i == CHOOSE j \in 1..Len(UpperChars) : SubSeq(UpperChars, j, j) = c
         IN  SubSeq(LowerChars, i, i)
    ELSE c

RECURSIVE StrLower(_)
\* str.lower()
StrLower(s) ==
    IF Len(s) = 0 THEN ""
    ELSE LowerChar(SubSeq(s, 1, 1)) \o StrLower(SubSeq(s, 2, Len(s)))

\* Python's `sub in s` on strings.
StrIn(sub, s) ==
    \E i \in 1..(Len(s) - Len(sub) + 1) : SubSeq(s, i, i + Len(sub) - 1) = sub

IsSpace(c) == c \in {" ", "\n", "\t"}

RECURSIVE LStrip(_)
LStrip(s) ==
    IF Len(s) > 0 /\ IsSpace(SubSeq(s, 1, 1)) THEN LStrip(SubSeq(s, 2, Len(s))) ELSE s

RECURSIVE RStrip(_)
RStrip(s) ==
    IF Len(s) > 0 /\ IsSpace(SubSeq(s, Len(s), Len(s)))
    THEN RStrip(SubSeq(s, 1, Len(s) - 1)) ELSE s

\* str.strip()
StrStrip(s) == LStrip(RStrip(s))

RECURSIVE StrJoin(_, _)
\* sep.join(parts)
StrJoin(sep, parts) ==
    IF parts = <<>> THEN ""
    ELSE IF Len(parts) = 1 THEN parts[1]
    ELSE parts[1] \o sep \o StrJoin(sep, Tail(parts))

\* acp_to_text: the text of every block, joined by newlines.
acp_to_text(blocks) == StrJoin("\n", blocks)

\* ---------------------------------------------------------------- schema

\* ToolCall(id, type="function", function=FunctionCall(name, arguments))
ToolCall(id, name, arguments) ==
    [id |-> id, type |-> "function", function |-> [name |-> name, arguments |-> arguments]]

\* Message(role, content, thinking=None, tool_calls=None, tool_call_id=None, name=None)
Message(role, content, thinking, tool_calls, tool_call_id, name) ==
    [role |-> role, content |-> content, thinking |-> thinking,
     tool_calls |-> tool_calls, tool_call_id |-> tool_call_id, name |-> name]

UserMessage(text) == Message("user", text, None, None, None, None)

SystemMessage(text) == Message("system", text, None, None, None, None)

LLMResponse(content, thinking, tool_calls, finish_reason) ==
    [content |-> content, thinking |-> thinking, tool_calls |-> tool_calls,
     finish_reason |-> finish_reason]

\* ---------------------------------------------------------------- llm.py

\* dict.get(key, default) on a record.
Get(d, key, default) == IF key \in DOMAIN d THEN d[key] ELSE default

\* The content of a request turn is either plain text or a list of segments.
PlainContent(text) == [kind |-> "text", text |-> text]

BlockContent(blocks) == [kind |-> "blocks", blocks |-> blocks]

ThinkingBlock(t) == [type |-> "thinking", thinking |-> t]

TextBlock(t) == [type |-> "text", text |-> t]

ToolUseBlock(id, name, input) == [type |-> "tool_use", id |-> id, name |-> name, input |-> input]

ToolResultBlock(id, content) == [type |-> "tool_result", tool_use_id |-> id, content |-> content]

RECURSIVE ToolUseBlocks(_)
\* llm.py 121-130: one tool_use block per tool call, in call order.
ToolUseBlocks(calls) ==
    IF calls = <<>> THEN <<>>
    ELSE <<ToolUseBlock(calls[1].id, calls[1].function.name, calls[1].function.arguments)>>
         \o ToolUseBlocks(Tail(calls))

\* Content blocks with the text ahead of the thinking.
AssistantBlocksTextFirst(msg) ==
    (IF msg.content # "" THEN <<TextBlock(msg.content)>> ELSE <<>>)
    \o (IF TruthyOptStr(msg.thinking) THEN <<ThinkingBlock(Val(msg.thinking))>> ELSE <<>>)
    \o (IF TruthyOptList(msg.tool_calls) THEN ToolUseBlocks(Val(msg.tool_calls)) ELSE <<>>)

\* llm.py 110-130: the content blocks of an assistant message with thinking
\* and/or tool calls.
AssistantBlocks(msg) ==
    (IF TruthyOptStr(msg.thinking) THEN <<ThinkingBlock(Val(msg.thinking))>> ELSE <<>>)
    \o (IF msg.content # "" THEN <<TextBlock(msg.content)>> ELSE <<>>)
    \o (IF TruthyOptList(msg.tool_calls) THEN ToolUseBlocks(Val(msg.tool_calls)) ELSE <<>>)

\* Request turns in which a tool message keeps its own role.
ApiMessageToolRole(msg) ==
    IF msg.role \in {"user", "assistant"}
    THEN IF msg.role = "assistant" /\ (TruthyOptStr(msg.thinking) \/ TruthyOptList(msg.tool_calls))
         THEN <<[role |-> "assistant", content |-> BlockContent(AssistantBlocks(msg))]>>
         ELSE <<[role |-> msg.role, content |-> PlainContent(msg.content)]>>
    ELSE IF msg.role = "tool"
    THEN <<[role |-> "tool",
            content |-> BlockContent(<<ToolResultBlock(msg.tool_call_id, msg.content)>>)]>>
    ELSE <<>>

\* llm.py 105-150: the request turns one message contributes (none for system).
ApiMessage(msg) ==
    IF msg.role \in {"user", "assistant"}
    THEN IF msg.role = "assistant" /\ (TruthyOptStr(msg.thinking) \/ TruthyOptList(msg.tool_calls))
         THEN <<[role |-> "assistant", content |-> BlockContent(AssistantBlocks(msg))]>>
         ELSE <<[role |-> msg.role, content |-> PlainContent(msg.content)]>>
    ELSE IF msg.role = "tool"
    THEN <<[role |-> "user",
            content |-> BlockContent(<<ToolResultBlock(msg.tool_call_id, msg.content)>>)]>>
    ELSE <<>>

RECURSIVE ApiMessagesWithSystem(_)
\* A loop that also makes a turn of a system message.
ApiMessagesWithSystem(messages) ==
    IF messages = <<>> THEN <<>>
    ELSE (IF messages[1].role = "system"
          THEN <<[role |-> "system", content |-> PlainContent(messages[1].content)]>>
          ELSE ApiMessage(messages[1]))
         \o ApiMessagesWithSystem(Tail(messages))

RECURSIVE ApiMessages(_)
\* llm.py 100-150: the loop over the conversation.
ApiMessages(messages) ==
    IF messages = <<>> THEN <<>>
    ELSE (IF messages[1].role = "system" THEN <<>> ELSE ApiMessage(messages[1]))
         \o ApiMessages(Tail(messages))

RECURSIVE SystemOf(_, _)
\* llm.py 97-103: system_message is overwritten by every system message met.
SystemOf(messages, acc) ==
    IF messages = <<>> THEN acc
    ELSE SystemOf(Tail(messages),
                  IF messages[1].role = "system" THEN Some(messages[1].content) ELSE acc)

\* max_tokens of every request.
MaxTokens == 16384

\* llm.py 152-165: the request payload; "system" and "tools" only when truthy.
BuildPayload(model, messages, tools) ==
    LET system_message == SystemOf(messages, None)
    IN  [model |-> model,
         messages |-> ApiMessages(messages),
         max_tokens |-> MaxTokens,
         system |-> IF TruthyOptStr(system_message) THEN system_message ELSE None,
         tools |-> IF TruthyOptList(tools) THEN tools ELSE None]

\* Status codes of base_resp that are not errors (None is the third).
StatusOk == 0

StatusOkAlt == 1000

\* A check that knows the generic error envelope only.
IsErrorEnvelopeGenericOnly(result) == Get(result, "type", "") = "error"

\* llm.py 66-86: the error-envelope check of _make_api_request.
\* A result is a record; the keys it lacks are the keys the JSON object lacks.
\* status_code is optional: None is JSON null or a missing key.
IsErrorEnvelope(result) ==
    \/ Get(result, "type", "") = "error"
    \/ /\ "base_resp" \in DOMAIN result
       /\ Get(result.base_resp, "status_code", None) \notin {Some(StatusOk), Some(StatusOkAlt), None}

RECURSIVE ConcatTextLast(_, _, _)
\* The field of the last block of the type, where the code concatenates.
ConcatTextLast(blocks, type, key) ==
    IF blocks = <<>> THEN ""
    ELSE LET rest == ConcatTextLast(Tail(blocks), type, key)
         IN  IF rest # "" THEN rest
             ELSE IF Get(blocks[1], "type", "") = type THEN Get(blocks[1], key, "") ELSE ""

RECURSIVE ConcatText(_, _, _)
\* llm.py 186-190: the concatenation of field `key` over the blocks of type `type`.
ConcatText(blocks, type, key) ==
    IF blocks = <<>> THEN ""
    ELSE (IF Get(blocks[1], "type", "") = type THEN Get(blocks[1], key, "") ELSE "")
         \o ConcatText(Tail(blocks), type, key)

RECURSIVE CollectToolCallsByArguments(_)
\* Tool calls whose arguments are read from the key "arguments".
CollectToolCallsByArguments(blocks) ==
    IF blocks = <<>> THEN <<>>
    ELSE (IF Get(blocks[1], "type", "") = "tool_use"
          THEN <<ToolCall(Get(blocks[1], "id", None), Get(blocks[1], "name", None),
                          Get(blocks[1], "arguments", <<>>))>>
          ELSE <<>>)
         \o CollectToolCallsByArguments(Tail(blocks))

RECURSIVE CollectToolCalls(_)
\* llm.py 191-202: the tool_use blocks, in order, as ToolCalls.
CollectToolCalls(blocks) ==
    IF blocks = <<>> THEN <<>>
    ELSE (IF Get(blocks[1], "type", "") = "tool_use"
          THEN <<ToolCall(Get(blocks[1], "id", None), Get(blocks[1], "name", None),
                          Get(blocks[1], "input", <<>>))>>
          ELSE <<>>)
         \o CollectToolCalls(Tail(blocks))

\* llm.py 177-209: the response parsed from a result that passed the check.
ParseResponse(result) ==
    LET content_blocks == Get(result, "content", <<>>)
        text_content == ConcatText(content_blocks, "text", "text")
        thinking_content == ConcatText(content_blocks, "thinking", "thinking")
        tool_calls == CollectToolCalls(content_blocks)
    IN  LLMResponse(text_content,
                    IF thinking_content # "" THEN Some(thinking_content) ELSE None,
                    IF tool_calls # <<>> THEN Some(tool_calls) ELSE None,
                    Get(result, "stop_reason", "stop"))

RECURSIVE last_user_text(_)
\* llm.py 214-218: the content of the last user message, "" without one.
last_user_text(messages) ==
    IF messages = <<>> THEN ""
    ELSE IF messages[Len(messages)].role = "user" THEN messages[Len(messages)].content
    ELSE last_user_text(SubSeq(messages, 1, Len(messages) - 1))

\* llm.py 220-221
has_tool_result(messages, name) ==
    \E i \in 1..Len(messages) : messages[i].role = "tool" /\ messages[i].name = Some(name)

\* llm.py 223-231: the call list, with the id the incremented counter gives.
tool_call(counter, name, arguments) ==
    <<ToolCall("stub-" \o ToString(counter + 1), name, arguments)>>

CalcArgs == <<<<"operation", PyStr("add")>>, <<"a", PyInt(123)>>, <<"b", PyInt(456)>>>>

WriteFileArgs == <<<<"path", PyStr("test.txt")>>, <<"content", PyStr("Hello from Agent!")>>>>

BashArgs ==
    <<<<"command", PyStr("ls")>>, <<"timeout", PyInt(30)>>, <<"run_in_background", PyBool(FALSE)>>>>

\* A response of _fake_response together with the counter it leaves.
FakeText(counter, content) ==
    [response |-> LLMResponse(content, None, None, "stop"), counter |-> counter]

FakeCall(counter, name, arguments) ==
    [response |-> LLMResponse("", None, Some(tool_call(counter, name, arguments)), "tool_use"),
     counter |-> counter + 1]

\* The canned responses chosen from the prompt as typed, not lower-cased.
FakeResponseCaseSensitive(messages, tools, counter) ==
    LET text == last_user_text(messages)
    IN  IF StrIn("say 'hello, mini agent!'", text) \/ StrIn("hello, mini agent", text)
        THEN FakeText(counter, "Hello, Mini Agent!")
        ELSE IF StrIn("calculate 123 + 456", text) /\ TruthyOptList(tools)
        THEN FakeCall(counter, "calculator", CalcArgs)
        ELSE FakeText(counter, "Stub response: " \o StrStrip(text))

\* llm.py 211-268: _fake_response(messages, tools) with _fake_call_counter = counter.
FakeResponse(messages, tools, counter) ==
    LET text == StrLower(last_user_text(messages))
        fallback == IF last_user_text(messages) # "" THEN last_user_text(messages) ELSE "Hello!"
    IN  IF StrIn("say 'hello, mini agent!'", text) \/ StrIn("hello, mini agent", text)
        THEN FakeText(counter, "Hello, Mini Agent!")
        ELSE IF StrIn("calculate 123 + 456", text) /\ TruthyOptList(tools)
        THEN FakeCall(counter, "calculator", CalcArgs)
        ELSE IF StrIn("test.txt", text) /\ StrIn("hello from agent", text)
        THEN IF has_tool_result(messages, "write_file")
             THEN FakeText(counter, "Created test.txt with the requested content.")
             ELSE FakeCall(counter, "write_file", WriteFileArgs)
        ELSE IF StrIn("list all files", text) /\ StrIn("bash", text)
        THEN IF has_tool_result(messages, "bash")
             THEN FakeText(counter, "Listed the files in the workspace.")
             ELSE FakeCall(counter, "bash", BashArgs)
        ELSE FakeText(counter, "Stub response: " \o StrStrip(fallback))

\* ---------------------------------------------------------------- acp/__init__.py

\* repr(value) of an argument value (strings here hold no quote or escape).
Repr(value) ==
    IF value.t = "str" THEN "'" \o value.v \o "'"
    ELSE IF value.t = "int" THEN ToString(value.v)
    ELSE IF value.v THEN "True" ELSE "False"

\* Longest rendering of a value that is shown whole.
ReprLimit == 48

\* Characters kept of a longer rendering, before "...".
ReprKeep == 45

\* Arguments shown in a label.
ArgsShown == 3

RECURSIVE FormatPartsNoBreak(_, _)
\* A parts list that holds every argument.
FormatPartsNoBreak(args, parts) ==
    IF args = <<>> THEN parts
    ELSE LET text == Repr(args[1][2])
             cut == IF Len(text) > ReprLimit THEN SubSeq(text, 1, ReprKeep) \o "..." ELSE text
         IN  FormatPartsNoBreak(Tail(args), Append(parts, args[1][1] \o "=" \o cut))

RECURSIVE FormatParts(_, _)
\* acp/__init__.py 51-58: the parts list; the loop breaks once it holds 3 parts.
FormatParts(args, parts) ==
    IF args = <<>> THEN parts
    ELSE LET text == Repr(args[1][2])
             cut == IF Len(text) > ReprLimit THEN SubSeq(text, 1, ReprKeep) \o "..." ELSE text
             more == Append(parts, args[1][1] \o "=" \o cut)
         IN  IF Len(more) = ArgsShown THEN more ELSE FormatParts(Tail(args), more)

\* acp/__init__.py 47-59
format_tool_args(args) == IF args = <<>> THEN "" ELSE StrJoin(", ", FormatParts(args, <<>>))

\* acp/__init__.py 167-168
ToolLabel(name, args) ==
    IF format_tool_args(args) # "" THEN name \o "(" \o format_tool_args(args) \o ")"
    ELSE name \o "()"

\* The session updates the turn sends (acp helpers of the same names).
update_agent_thought(text) == [sessionUpdate |-> "agent_thought_chunk", text |-> text]

update_agent_message(text) == [sessionUpdate |-> "agent_message_chunk", text |-> text]

start_tool_call(id, label, args) ==
    [sessionUpdate |-> "tool_call", toolCallId |-> id, title |-> label, kind |-> "execute",
     rawInput |-> args]

update_tool_call(id, status, text) ==
    [sessionUpdate |-> "tool_call_update", toolCallId |-> id, status |-> status,
     content |-> text, rawOutput |-> text]


VARIABLES
    config,     \* Config: agent.max_steps, the base tools, the workspace tools
    llm,        \* LLMClient: _offline, _fake_call_counter, retry_config
    sessions,   \* MiniMaxACPAgent._sessions: session id -> the SessionState it refers to
    states,     \* the SessionState objects, each with the frame of its running turn
    pending,    \* newSession calls suspended in _connect_mcp_servers
    reply,      \* the last PromptResponse sent, numbered
    client,     \* what the client has sent so far: the number of its requests, the
                \* step budget of its prompts, the session id of its last prompt or cancel
    retry,      \* one request of generate under the retry policy
    codec       \* one conversation serialised, answered and parsed

vars == <<config, llm, sessions, states, pending, reply, client, retry, codec>>

\* ---- the backend and the tools, as the turn sees them

\* The tool_use segments of a response of n calls: the names alternate, from `first`.
CallBlocks(n, first) ==
    [i \in 1..n |->
        ToolUseBlock("toolu_" \o ToString(i),
                     IF (i % 2 = 1) = (first = "calculator") THEN "calculator" ELSE "nosuch",
                     <<<<"x", PyInt(i)>>>>)]

BackendResult(thinking, text, calls) ==
    [type |-> "message",
     content |-> (IF thinking THEN <<ThinkingBlock("t")>> ELSE <<>>)
                 \o (IF text THEN <<TextBlock("c")>> ELSE <<>>) \o calls,
     stop_reason |-> IF calls = <<>> THEN "end_turn" ELSE "tool_use"]

\* The successful results the backend sends.
BackendResults ==
    {BackendResult(th, tx, <<>>) : th \in BOOLEAN, tx \in BOOLEAN}
    \cup {BackendResult(b, b, CallBlocks(n, first)) :
            b \in BOOLEAN, n \in 1..MaxCalls, first \in {"calculator", "nosuch"}}

\* The error envelopes the backend sends.
ErrorEnvelopes ==
    {[type |-> "error", error |-> [type |-> "overloaded_error", message |-> "busy"]],
     [type |-> "message", content |-> <<>>,
      base_resp |-> [status_code |-> Some(1008), status_msg |-> "insufficient balance"]]}

\* What one HTTP exchange yields: a transport failure or a JSON result.
TransportOutcomes ==
    {[raised |-> TRUE, error |-> "connect timeout"]}
    \cup {[raised |-> FALSE, result |-> r] : r \in BackendResults \cup ErrorEnvelopes}

\* llm.py 67-84: the text of the exception an error envelope raises (without the
\* warning sign the two hints start with).
EnvelopeError(result, model) ==
    IF Get(result, "type", "") = "error"
    THEN "API Error (" \o Get(Get(result, "error", <<>>), "type", "None") \o "): "
         \o Get(Get(result, "error", <<>>), "message", "None")
    ELSE LET code == Val(result.base_resp.status_code)
             msg == "MiniMax API Error (code " \o ToString(code) \o "): "
                    \o Get(result.base_resp, "status_msg", "None")
         IN  IF code = 1008 THEN msg \o "\n\nInsufficient account balance, please recharge on MiniMax platform"
             ELSE IF code = 2013 THEN msg \o "\n\nModel '" \o model \o "' is not supported"
             ELSE msg

\* llm.py 41-86: _make_api_request on one exchange.
make_api_request(exchange, model) ==
    IF exchange.raised THEN exchange
    ELSE IF IsErrorEnvelope(exchange.result)
    THEN [raised |-> TRUE, error |-> EnvelopeError(exchange.result, model)]
    ELSE exchange

\* llm.py 172-209: what generate yields from the outcome of its request.
GenerateResult(requested) ==
    IF requested.raised THEN requested
    ELSE [raised |-> FALSE, response |-> ParseResponse(requested.result)]

\* What awaiting tool.execute(**args) yields: a ToolResult or an exception.
ToolOutcomes ==
    {[raised |-> FALSE, success |-> TRUE, content |-> "ok", error |-> None],
     [raised |-> FALSE, success |-> FALSE, content |-> "", error |-> Some("bad input")],
     [raised |-> FALSE, success |-> FALSE, content |-> "", error |-> None],
     [raised |-> TRUE, exc |-> "boom"]}

\* tool.to_schema() of every tool of the agent.
ToolSchemas(tools) == [i \in 1..Len(tools) |-> [name |-> tools[i]]]

\* ---- _run_turn

\* acp/__init__.py 205-206: _send; `updates` is what the client has received of
\* the session's current turn.
Send(st, update) == [st EXCEPT !.updates = Append(@, update)]

\* A return of _run_turn: prompt answers with the stop reason.
Return(st, reason) == [st EXCEPT !.pc = "idle", !.stop = Some(reason)]

\* A response whose message update is sent before its thought update.
AcceptResponseMessageFirst(st, response) ==
    LET st1 == IF response.content # ""
               THEN Send(st, update_agent_message(response.content)) ELSE st
        st2 == IF TruthyOptStr(response.thinking)
               THEN Send(st1, update_agent_thought(Val(response.thinking))) ELSE st1
        st3 == [st2 EXCEPT !.messages = Append(@, Message("assistant", response.content,
                                response.thinking, response.tool_calls, None, None)),
                           !.base = Len(st2.messages) + 1]
    IN  IF ~TruthyOptList(response.tool_calls) THEN Return(st3, "end_turn")
        ELSE [st3 EXCEPT !.pc = "dispatch", !.idx = 1]

\* A response whose assistant message is kept only when it asks for tools.
AcceptResponseToolsOnly(st, response) ==
    LET st1 == IF TruthyOptStr(response.thinking)
               THEN Send(st, update_agent_thought(Val(response.thinking))) ELSE st
        st2 == IF response.content # ""
               THEN Send(st1, update_agent_message(response.content)) ELSE st1
        st3 == [st2 EXCEPT !.messages = Append(@, Message("assistant", response.content,
                                response.thinking, response.tool_calls, None, None)),
                           !.base = Len(st2.messages) + 1]
    IN  IF ~TruthyOptList(response.tool_calls) THEN Return(st2, "end_turn")
        ELSE [st3 EXCEPT !.pc = "dispatch", !.idx = 1]

\* acp/__init__.py 158-164: the response is streamed and appended; the turn ends
\* without tool calls and otherwise goes on to the first call.
AcceptResponse(st, response) ==
    LET st1 == IF TruthyOptStr(response.thinking)
               THEN Send(st, update_agent_thought(Val(response.thinking))) ELSE st
        st2 == IF response.content # ""
               THEN Send(st1, update_agent_message(response.content)) ELSE st1
        st3 == [st2 EXCEPT !.messages = Append(@, Message("assistant", response.content,
                                response.thinking, response.tool_calls, None, None)),
                           !.base = Len(st2.messages) + 1]
    IN  IF ~TruthyOptList(response.tool_calls) THEN Return(st3, "end_turn")
        ELSE [st3 EXCEPT !.pc = "dispatch", !.idx = 1]

\* The response handled without the second look at the flag.
AfterGenerateNoRecheck(st, outcome) ==
    IF outcome.raised
    THEN Return(Send(st, update_agent_message("Error: " \o outcome.error)), "refusal")
    ELSE AcceptResponse([st EXCEPT !.response = Some(outcome.response)], outcome.response)

\* A failed model call that ends the turn as if the model had answered nothing.
AfterGenerateEndsTurn(st, outcome) ==
    IF outcome.raised
    THEN Return(Send(st, update_agent_message("Error: " \o outcome.error)), "end_turn")
    ELSE LET st1 == [st EXCEPT !.response = Some(outcome.response)]
         IN  IF st1.cancelled THEN Return(st1, "cancelled")
             ELSE AcceptResponse(st1, outcome.response)

\* acp/__init__.py 150-157: generate raised, or returned and the flag is re-checked.
AfterGenerate(st, outcome) ==
    IF outcome.raised
    THEN Return(Send(st, update_agent_message("Error: " \o outcome.error)), "refusal")
    ELSE LET st1 == [st EXCEPT !.response = Some(outcome.response)]
         IN  IF st1.cancelled THEN Return(st1, "cancelled")
             ELSE AcceptResponse(st1, outcome.response)

\* A loop that runs one iteration too many.
LoopHeadOffByOne(st, L) ==
    IF st.step > st.max_steps
    THEN [st |-> Return(st, "max_turn_requests"), llm |-> L]
    ELSE IF st.cancelled
    THEN [st |-> Return(st, "cancelled"), llm |-> L]
    ELSE [st |-> [st EXCEPT !.model_calls = @ + 1, !.pc = "generate"], llm |-> L]

\* A loop head that does not look at the flag.
LoopHeadNoCheck(st, L) ==
    IF st.step >= st.max_steps
    THEN [st |-> Return(st, "max_turn_requests"), llm |-> L]
    ELSE LET called == [st EXCEPT !.model_calls = @ + 1]
         IN  IF L.offline
             THEN LET fake == FakeResponse(st.messages, Some(ToolSchemas(st.tools)),
                                           L.fake_call_counter)
                  IN  [st |-> AfterGenerate(called, [raised |-> FALSE, response |-> fake.response]),
                       llm |-> [L EXCEPT !.fake_call_counter = fake.counter]]
             ELSE [st |-> [called EXCEPT !.pc = "generate"], llm |-> L]

\* acp/__init__.py 146-151: the head of iteration st.step of the for loop, up to
\* the await of generate. An offline client answers without suspending
\* (llm.py 94-95), so the turn goes on in the same step.
LoopHead(st, L) ==
    IF st.step >= st.max_steps
    THEN [st |-> Return(st, "max_turn_requests"), llm |-> L]
    ELSE IF st.cancelled
    THEN [st |-> Return(st, "cancelled"), llm |-> L]
    ELSE LET called == [st EXCEPT !.model_calls = @ + 1]
         IN  IF L.offline
             THEN LET fake == FakeResponse(st.messages, Some(ToolSchemas(st.tools)),
                                           L.fake_call_counter)
                  IN  [st |-> AfterGenerate(called, [raised |-> FALSE, response |-> fake.response]),
                       llm |-> [L EXCEPT !.fake_call_counter = fake.counter]]
             ELSE [st |-> [called EXCEPT !.pc = "generate"], llm |-> L]

\* The call the tool loop is at (acp/__init__.py 165-166).
CurrentCall(st) == Val(Val(st.response).tool_calls)[st.idx]

\* A tool message that carries the tool's name where the call's id belongs.
FinishCallNamed(st, call, text, status) ==
    LET st1 == Send(st, update_tool_call(call.id, status, text))
    IN  [st1 EXCEPT !.messages = Append(@, Message("tool", text, None, None,
                                                   Some(call.function.name),
                                                   Some(call.function.name))),
                    !.idx = @ + 1,
                    !.pc = "dispatch"]

\* acp/__init__.py 180-181: the finished update and the tool message of a call;
\* the for loop over the calls then moves on.
FinishCall(st, call, text, status) ==
    LET st1 == Send(st, update_tool_call(call.id, status, text))
    IN  [st1 EXCEPT !.messages = Append(@, Message("tool", text, None, None,
                                                   Some(call.id), Some(call.function.name))),
                    !.idx = @ + 1,
                    !.pc = "dispatch"]

\* An unknown tool that ends the turn.
UnknownToolAborts(st, call) ==
    Return(Send(st, update_tool_call(call.id, "failed", "Unknown tool: " \o call.function.name)),
           "refusal")

\* An unknown tool that is skipped: the finished update, but no tool message.
UnknownToolSkipped(st, call) ==
    [Send(st, update_tool_call(call.id, "failed", "Unknown tool: " \o call.function.name))
        EXCEPT !.idx = @ + 1, !.pc = "dispatch"]

\* acp/__init__.py 170-172: the call names no tool of the agent.
UnknownTool(st, call) ==
    FinishCall(st, call, "Unknown tool: " \o call.function.name, "failed")

\* acp/__init__.py 166-175: the started update, the lookup, and either the
\* failed result of an unknown tool or the await of tool.execute.
StartCall(st, call) ==
    LET name == call.function.name
        args == call.function.arguments
        st1 == Send(st, start_tool_call(call.id, ToolLabel(name, args), args))
    IN  IF \A i \in 1..Len(st.tools) : st.tools[i] # name
        THEN UnknownTool(st1, call)
        ELSE [st1 EXCEPT !.pc = "execute", !.executed = Append(@, call.id)]

\* A status that ignores result.success.
ToolStatusOfReturn(outcome) == IF outcome.raised THEN "failed" ELSE "completed"

\* acp/__init__.py 176-179: status and text of what execute yielded.
ToolStatus(outcome) ==
    IF outcome.raised THEN "failed"
    ELSE IF outcome.success THEN "completed" ELSE "failed"

ToolText(outcome) ==
    IF outcome.raised THEN "Tool error: " \o outcome.exc
    ELSE IF outcome.success THEN outcome.content
    ELSE IF TruthyOptStr(outcome.error) THEN Val(outcome.error) ELSE "Tool execution failed"

\* A tool loop that looks at the flag after every call and stops at once.
AfterCallChecksFlag(st, L) ==
    IF st.cancelled THEN [st |-> Return(st, "cancelled"), llm |-> L]
    ELSE IF st.idx <= Len(Val(Val(st.response).tool_calls))
    THEN [st |-> st, llm |-> L]
    ELSE LoopHead([st EXCEPT !.step = @ + 1], L)

\* acp/__init__.py 165, 146: after a call, the next call of the batch or, the
\* batch done, the next iteration of the step loop.
AfterCall(st, L) ==
    IF st.idx <= Len(Val(Val(st.response).tool_calls))
    THEN [st |-> st, llm |-> L]
    ELSE LoopHead([st EXCEPT !.step = @ + 1], L)

\* ---- the session manager

SystemPrompt == "You are a helpful AI assistant."

\* uuid4().hex[:8]: two of its values.
Uuids == {"0a1b2c3d", "9f8e7d6c"}

\* The provider lists a new-session request carries: none; a provider of an
\* unsupported type followed by a stdio provider; two stdio providers, the
\* second with a tool named like a base tool.
ServerLists ==
    {<<>>,
     <<[name |-> "web", type |-> "sse", tools |-> <<"fetch">>],
       [name |-> "fs", type |-> "stdio", tools |-> <<"fs_read">>]>>,
     <<[name |-> "fs", type |-> "stdio", tools |-> <<"fs_read">>],
       [name |-> "sh", type |-> "stdio", tools |-> <<"calculator", "sh_run">>]>>}

RECURSIVE DictKeys(_, _)
\* {tool.name: tool for tool in tools}: the names, each once, in insertion order.
DictKeys(names, acc) ==
    IF names = <<>> THEN acc
    ELSE DictKeys(Tail(names),
                  IF \E i \in 1..Len(acc) : acc[i] = names[1] THEN acc ELSE Append(acc, names[1]))

\* Agent(llm_client, system_prompt, tools, max_steps, workspace_dir) inside a new
\* SessionState (acp/__init__.py 72-76, 120-121), with no turn running.
NewSessionState(session_id, tools, connections, workspace) ==
    [session_id |-> session_id,
     messages |-> <<SystemMessage(SystemPrompt)>>,
     tools |-> DictKeys(tools, <<>>),
     max_steps |-> config.max_steps,
     workspace |-> workspace,
     mcp_connections |-> connections,
     cancelled |-> FALSE,
     pc |-> "idle", step |-> 0, response |-> None, idx |-> 0,
     base |-> 0, updates |-> <<>>, model_calls |-> 0, executed |-> <<>>, stop |-> None]

\* A connect attempted for every provider, whatever its type.
SkipNothing(servers) == servers

RECURSIVE SkipUnsupported(_)
\* acp/__init__.py 189-193: providers that are not stdio are skipped.
SkipUnsupported(servers) ==
    IF servers # <<>> /\ servers[1].type # "stdio" THEN SkipUnsupported(Tail(servers))
    ELSE servers

\* acp/__init__.py 106-108: the workspace, made absolute.
ResolveWorkspace(cwd) ==
    LET path == IF cwd # "" THEN cwd ELSE config.workspace_dir
    IN  IF Len(path) > 0 /\ SubSeq(path, 1, 1) = "/" THEN path ELSE "/proc-cwd/" \o path

\* acp/__init__.py 105
NewSessionId(table, uuid) == "sess-" \o ToString(Cardinality(DOMAIN table)) \o "-" \o uuid

\* acp/__init__.py 119-121: the session is stored under its id, over whatever
\* was stored there.
StoreSession(table, session_id, ref) ==
    [x \in DOMAIN table \cup {session_id} |-> IF x = session_id THEN ref ELSE table[x]]

\* A newSession call past _connect_mcp_servers: either it is suspended on the
\* connect of its next stdio provider, or it stores the session and answers.
\* `others` are the other suspended calls. The session keeps, for the record,
\* the providers that were requested and how the connect of each one ended.
ContinueNewSession(call, others) ==
    LET rest == SkipUnsupported(call.servers)
        ref == Len(states) + 1
    IN  IF rest # <<>>
        THEN /\ pending' = Append(others, [call EXCEPT !.servers = rest])
             /\ UNCHANGED <<sessions, states>>
        ELSE /\ states' = Append(states,
                               NewSessionState(call.session_id, call.tools \o call.extra_tools,
                                               call.connections, call.workspace)
                               @@ [requested |-> call.requested, outcomes |-> call.outcomes])
             /\ sessions' = StoreSession(sessions, call.session_id, ref)
             /\ pending' = others

\* acp/__init__.py 104-127, up to the first connect.
NewSession(cwd, servers, uuid) ==
    /\ client.sessions < MaxSessions
    /\ client' = [client EXCEPT !.sessions = @ + 1]
    /\ ContinueNewSession([session_id |-> NewSessionId(sessions, uuid),
                           workspace |-> ResolveWorkspace(cwd),
                           tools |-> config.base_tools \o config.workspace_tools,
                           servers |-> servers, extra_tools |-> <<>>, connections |-> <<>>,
                           requested |-> servers, outcomes |-> <<>>],
                          pending)
    /\ UNCHANGED <<config, llm, reply, retry, codec>>

\* acp/__init__.py 197-202: conn.connect() of the provider a call waits for
\* returns; its tools are added when it connected.
ConnectReturns(i, connected) ==
    LET call == pending[i]
        server == call.servers[1]
        others == SubSeq(pending, 1, i - 1) \o SubSeq(pending, i + 1, Len(pending))
    IN  /\ ContinueNewSession(
              [call EXCEPT !.servers = Tail(@),
                           !.connections = IF connected THEN Append(@, server.name) ELSE @,
                           !.extra_tools = IF connected THEN @ \o server.tools ELSE @,
                           !.outcomes = Append(@, <<server.name, connected>>)],
              others)
        /\ UNCHANGED <<config, llm, reply, client, retry, codec>>

\* A lookup that falls back on some session when the id is unknown.
LookupOrAny(table, session_id) ==
    IF session_id \in DOMAIN table THEN Some(table[session_id])
    ELSE IF DOMAIN table # {} THEN Some(table[CHOOSE x \in DOMAIN table : TRUE])
    ELSE None

\* self._sessions.get(sessionId) (acp/__init__.py 130, 140).
Lookup(table, session_id) ==
    IF session_id \in DOMAIN table THEN Some(table[session_id]) ELSE None

\* A PromptResponse after every step of a turn, ended or not.
RespondEachStep(st) ==
    [n |-> reply.n + 1, sessionId |-> st.session_id,
     stopReason |-> IF st.stop = None THEN "end_turn" ELSE Val(st.stop)]

\* The PromptResponse a turn that has returned sends.
Respond(st) ==
    IF st.pc = "idle"
    THEN [n |-> reply.n + 1, sessionId |-> st.session_id, stopReason |-> Val(st.stop)]
    ELSE reply

\* A turn's step: the SessionState `ref` and the client become `next`.
TurnStep(ref, next) ==
    /\ states' = [states EXCEPT ![ref] = next.st]
    /\ llm' = next.llm
    /\ reply' = Respond(next.st)

\* A turn that starts with the flag as the last turn left it.
StartTurnKeepsFlag(st, text) ==
    [st EXCEPT !.messages = Append(@, UserMessage(text)),
               !.pc = "run", !.step = 0, !.response = None, !.idx = 0,
               !.base = 0, !.updates = <<>>, !.model_calls = 0, !.executed = <<>>,
               !.stop = None]

\* A turn that starts from a conversation of the system message and the prompt alone.
StartTurnFresh(st, text) ==
    [st EXCEPT !.cancelled = FALSE,
               !.messages = <<st.messages[1], UserMessage(text)>>,
               !.pc = "run", !.step = 0, !.response = None, !.idx = 0,
               !.base = 0, !.updates = <<>>, !.model_calls = 0, !.executed = <<>>,
               !.stop = None]

\* acp/__init__.py 133-136: the flag is reset, the user message appended and
\* _run_turn entered with a fresh frame.
StartTurn(st, text) ==
    [st EXCEPT !.cancelled = FALSE,
               !.messages = Append(@, UserMessage(text)),
               !.pc = "run", !.step = 0, !.response = None, !.idx = 0,
               !.base = 0, !.updates = <<>>, !.model_calls = 0, !.executed = <<>>,
               !.stop = None]

\* acp/__init__.py 129-137: prompt, up to the first suspension of its turn.
\* The client sends no prompt to a session whose turn is running.
Prompt(session_id, blocks) ==
    LET state == Lookup(sessions, session_id)
    IN  /\ client.prompts < MaxPrompts
        /\ IF state = None
           THEN /\ reply' = [n |-> reply.n + 1, sessionId |-> session_id,
                             stopReason |-> "refusal"]
                /\ client' = [client EXCEPT !.prompts = @ + 1, !.last = session_id]
                /\ UNCHANGED <<llm, states>>
           ELSE /\ states[Val(state)].pc = "idle"
                /\ client.steps + states[Val(state)].max_steps <= StepBudget
                /\ client' = [client EXCEPT !.prompts = @ + 1, !.last = session_id,
                                            !.steps = @ + states[Val(state)].max_steps]
                /\ TurnStep(Val(state),
                            LoopHead(StartTurn(states[Val(state)], acp_to_text(blocks)), llm))
        /\ UNCHANGED <<config, sessions, pending, retry, codec>>

\* A cancel that sets the flag of every session.
CancelAll(session_id) ==
    LET state == Lookup(sessions, session_id)
    IN  /\ client.cancels < MaxCancels
        /\ client' = [client EXCEPT !.cancels = @ + 1, !.last = session_id]
        /\ states' = IF state = None THEN states
                     ELSE [ref \in 1..Len(states) |-> [states[ref] EXCEPT !.cancelled = TRUE]]
        /\ UNCHANGED <<config, llm, sessions, pending, reply, retry, codec>>

\* acp/__init__.py 139-142
Cancel(session_id) ==
    LET state == Lookup(sessions, session_id)
    IN  /\ client.cancels < MaxCancels
        /\ client' = [client EXCEPT !.cancels = @ + 1, !.last = session_id]
        /\ states' = IF state = None THEN states
                     ELSE [states EXCEPT ![Val(state)].cancelled = TRUE]
        /\ UNCHANGED <<config, llm, sessions, pending, reply, retry, codec>>

\* acp/__init__.py 151-164: generate of a live client returns or raises.
GenerateReturns(ref, exchange) ==
    /\ states[ref].pc = "generate"
    /\ TurnStep(ref, [st |-> AfterGenerate(states[ref],
                                GenerateResult(make_api_request(exchange, llm.model))),
                      llm |-> llm])
    /\ UNCHANGED <<config, sessions, pending, client, retry, codec>>

\* acp/__init__.py 165-172: the next call of the batch is started.
ToolStart(ref) ==
    /\ states[ref].pc = "dispatch"
    /\ LET st == StartCall(states[ref], CurrentCall(states[ref]))
       IN  TurnStep(ref, IF st.pc = "execute" THEN [st |-> st, llm |-> llm]
                         ELSE AfterCall(st, llm))
    /\ UNCHANGED <<config, sessions, pending, client, retry, codec>>

\* acp/__init__.py 175-181: tool.execute returns or raises.
ToolReturns(ref, outcome) ==
    /\ states[ref].pc = "execute"
    /\ TurnStep(ref, AfterCall(FinishCall(states[ref], CurrentCall(states[ref]),
                                          ToolText(outcome), ToolStatus(outcome)), llm))
    /\ UNCHANGED <<config, sessions, pending, client, retry, codec>>

\* ---- the agent's specifications

\* The ids the client names in prompt and cancel: those of the sessions it was
\* given, and one that it was not given, or not yet.
ClientIds == DOMAIN sessions \cup {"sess-0-0a1b2c3d"}

\* The content blocks of the prompts the client sends.
PromptBlocks ==
    IF llm.offline
    THEN {<<"Say 'Hello, Mini Agent!'">>, <<"calculate 123 + 456">>,
          <<"Create test.txt with content:", "Hello from Agent!">>, <<" ping ">>}
    ELSE {<<"hi">>}

\* The configurations the server is started with.
Configs(offline) ==
    [max_steps : 0..MaxSteps,
     base_tools : IF offline THEN {<<>>, <<"calculator">>} ELSE {<<"calculator">>},
     workspace_tools : {<<>>},
     workspace_dir : {"./workspace"}]

RetryIdle == [phase |-> "idle"]

CodecIdle == [phase |-> "idle"]

\* The state run_acp_server leaves: no session, nothing sent.
InitAgent(offline) ==
    /\ config \in Configs(offline)
    /\ llm = [offline |-> offline, fake_call_counter |-> 0, model |-> "MiniMax-M2"]
    /\ sessions = <<>>
    /\ states = <<>>
    /\ pending = <<>>
    /\ reply = [n |-> 0, sessionId |-> "", stopReason |-> ""]
    /\ client = [prompts |-> 0, cancels |-> 0, sessions |-> 0, steps |-> 0, last |-> ""]
    /\ retry = RetryIdle
    /\ codec = CodecIdle

Init == InitAgent(FALSE)

InitOffline == InitAgent(TRUE)

\* The client's requests; it asks for the providers of one of `lists`.
NextClient(lists) ==
    \/ \E servers \in lists, uuid \in Uuids : NewSession("/w", servers, uuid)
    \/ \E id \in ClientIds, blocks \in PromptBlocks : Prompt(id, blocks)
    \/ \E id \in ClientIds : Cancel(id)

NextTools ==
    \/ \E ref \in 1..Len(states) : ToolStart(ref)
    \/ \E ref \in 1..Len(states), outcome \in ToolOutcomes : ToolReturns(ref, outcome)

NextGenerate ==
    \E ref \in 1..Len(states), exchange \in TransportOutcomes : GenerateReturns(ref, exchange)

NextConnect ==
    \E i \in 1..Len(pending), connected \in BOOLEAN : ConnectReturns(i, connected)

\* A client that requests no tool providers.
Next == NextClient({<<>>}) \/ NextTools \/ NextGenerate

\* An offline client never suspends in generate.
NextOffline == NextClient({<<>>}) \/ NextTools

\* The server with a live model client.
Spec == Init /\ [][Next]_vars

\* The server with an offline model client.
SpecOffline == InitOffline /\ [][NextOffline]_vars

\* What the turn of SessionState `ref` awaits comes back: its model call returns
\* or fails, its tool call returns or fails, or the loop resumes after a
\* started update was sent.
TurnAwaits(ref) ==
    /\ ref \in 1..Len(states)
    /\ \/ \E exchange \in TransportOutcomes : GenerateReturns(ref, exchange)
       \/ ToolStart(ref)
       \/ \E outcome \in ToolOutcomes : ToolReturns(ref, outcome)

\* The client of the liveness check works with one session.
NextLive ==
    \/ sessions = <<>> /\ NewSession("/w", <<>>, "9f8e7d6c")
    \/ \E id \in ClientIds, blocks \in PromptBlocks : Prompt(id, blocks)
    \/ \E id \in ClientIds : Cancel(id)
    \/ NextTools
    \/ NextGenerate

InitLive == Init

\* The server with a live model client, where every awaited model call and tool
\* call of every turn ends.
SpecLive == InitLive /\ [][NextLive]_vars /\ \A ref \in 1..MaxSessions : WF_vars(TurnAwaits(ref))

\* The working directories a new-session request names: absolute, none, relative.
Cwds == {"/w", "", "proj"}

\* New-session requests with tool providers, and the connects they wait for.
NextSessions ==
    \/ \E cwd \in Cwds, servers \in ServerLists, uuid \in Uuids : NewSession(cwd, servers, uuid)
    \/ NextConnect

\* The configurations of the servers whose session manager is checked: with and
\* without workspace tools, with a relative and an absolute default workspace.
SessionConfigs ==
    [max_steps : {MaxSteps},
     base_tools : {<<"calculator">>},
     workspace_tools : {<<>>, <<"read_file">>},
     workspace_dir : {"./workspace", "/srv/ws"}]

InitSessions ==
    /\ config \in SessionConfigs
    /\ llm = [offline |-> FALSE, fake_call_counter |-> 0, model |-> "MiniMax-M2"]
    /\ sessions = <<>>
    /\ states = <<>>
    /\ pending = <<>>
    /\ reply = [n |-> 0, sessionId |-> "", stopReason |-> ""]
    /\ client = [prompts |-> 0, cancels |-> 0, sessions |-> 0, steps |-> 0, last |-> ""]
    /\ retry = RetryIdle
    /\ codec = CodecIdle

\* The session manager under new-session requests that may interleave.
SpecSessions == InitSessions /\ [][NextSessions]_vars

\* ---------------------------------------------------------------- failures outside the try blocks

\* An exception leaves _run_turn and prompt: the turn is over and the client
\* gets no PromptResponse.
Raise(st) == [st EXCEPT !.pc = "raised"]

\* acp/__init__.py 129-149: a prompt whose turn fails building the tool schemas
\* of its first step (tool.to_schema() raises, outside the try of line 150).
SchemaFails(session_id, blocks) ==
    LET state == Lookup(sessions, session_id)
    IN  /\ client.prompts < MaxPrompts
        /\ state # None
        /\ states[Val(state)].pc = "idle"
        /\ states[Val(state)].max_steps > 0
        /\ client.steps + states[Val(state)].max_steps <= StepBudget
        /\ client' = [client EXCEPT !.prompts = @ + 1, !.last = session_id,
                                    !.steps = @ + states[Val(state)].max_steps]
        /\ TurnStep(Val(state),
                    [st |-> Raise(StartTurn(states[Val(state)], acp_to_text(blocks))),
                     llm |-> llm])
        /\ UNCHANGED <<config, sessions, pending, retry, codec>>

\* acp/__init__.py 151-161, 205-206: generate ends and the first update the step
\* sends cannot be delivered (sessionUpdate raises): the error update inside the
\* except branch, or the thought or message update of an accepted response.
ResponseSendFails(ref, exchange) ==
    LET st == states[ref]
        outcome == GenerateResult(make_api_request(exchange, llm.model))
    IN  /\ st.pc = "generate"
        /\ IF outcome.raised THEN TRUE
           ELSE /\ ~st.cancelled
                /\ TruthyOptStr(outcome.response.thinking) \/ outcome.response.content # ""
        /\ TurnStep(ref, [st |-> Raise(st), llm |-> llm])
        /\ UNCHANGED <<config, sessions, pending, client, retry, codec>>

\* acp/__init__.py 166-169: the label of the call cannot be formatted (its
\* arguments are no mapping, args.items() raises) or its started update cannot
\* be delivered.
DispatchFails(ref) ==
    /\ states[ref].pc = "dispatch"
    /\ TurnStep(ref, [st |-> Raise(states[ref]), llm |-> llm])
    /\ UNCHANGED <<config, sessions, pending, client, retry, codec>>

\* acp/__init__.py 175-180: tool.execute has ended, whichever way, and the
\* finished update cannot be delivered; no tool message is appended.
FinishSendFails(ref) ==
    /\ states[ref].pc = "execute"
    /\ TurnStep(ref, [st |-> Raise(states[ref]), llm |-> llm])
    /\ UNCHANGED <<config, sessions, pending, client, retry, codec>>

NextFaults ==
    \/ \E id \in ClientIds, blocks \in PromptBlocks : SchemaFails(id, blocks)
    \/ \E ref \in 1..Len(states), exchange \in TransportOutcomes : ResponseSendFails(ref, exchange)
    \/ \E ref \in 1..Len(states) : DispatchFails(ref)
    \/ \E ref \in 1..Len(states) : FinishSendFails(ref)

\* The live server with one session, where the operations of a turn that are
\* outside its try blocks may fail.
SpecFaults == InitLive /\ [][NextLive \/ NextFaults]_vars

\* ---- the labels of tool calls

\* Most arguments of a tool call whose label is built.
MaxLabelArgs == 4

\* Strings whose repr has 48, 49 and 62 characters.
Str46 == "abcdefghijabcdefghijabcdefghijabcdefghijabcdef"

Str47 == "abcdefghijabcdefghijabcdefghijabcdefghijabcdefg"

Str60 == "abcdefghijabcdefghijabcdefghijabcdefghijabcdefghijabcdefghij"

\* The argument values of those calls.
LabelValues == <<PyStr("ls"), PyStr(Str46), PyStr(Str47), PyStr(Str60), PyInt(7), PyBool(FALSE)>>

\* Their keys, in the order of the mapping.
LabelKeys == <<"q", "b", "z", "a", "m">>

\* The argument mapping of the first n keys, key i with value choice[i].
LabelArgs(n, choice) == [i \in 1..n |-> <<LabelKeys[i], LabelValues[choice[i]]>>]

\* What the backend answers: one call, of a tool of the agent or of none.
LabelExchange(name, args) ==
    [raised |-> FALSE,
     result |-> [type |-> "message",
                 content |-> <<ToolUseBlock("toolu_1", name, args)>>,
                 stop_reason |-> "tool_use"]]

InitLabels == Init /\ config.max_steps = 1

\* One session with one turn, whose model call is answered with a tool call.
NextLabels ==
    \/ sessions = <<>> /\ NewSession("/w", <<>>, "9f8e7d6c")
    \/ \E id \in ClientIds, blocks \in PromptBlocks : client.prompts = 0 /\ Prompt(id, blocks)
    \/ NextTools
    \/ \E ref \in 1..Len(states), name \in {"calculator", "nosuch"}, n \in 0..MaxLabelArgs :
          \E choice \in [1..n -> 1..Len(LabelValues)] :
              GenerateReturns(ref, LabelExchange(name, LabelArgs(n, choice)))

\* The live server as far as the started updates of tool calls go.
SpecLabels == InitLabels /\ [][NextLabels]_vars

\* ---------------------------------------------------------------- the request of generate

\* Largest max_retries of a retry policy.
MaxRetries == 2

\* The retry policies: RetryConfig(enabled, max_retries, initial_delay, max_delay,
\* exponential_base), delays in seconds.
RetryConfigs ==
    [enabled : BOOLEAN, max_retries : 0..MaxRetries, initial_delay : {1}, max_delay : {3},
     exponential_base : {2}]

RECURSIVE Power(_, _)
Power(b, n) == IF n = 0 THEN 1 ELSE b * Power(b, n - 1)

\* The delay before the retry that follows failed attempt number `attempt`
\* (counted from 0): initial_delay * exponential_base^attempt, at most max_delay.
RetryDelay(cfg, attempt) ==
    LET d == cfg.initial_delay * Power(cfg.exponential_base, attempt)
    IN  IF d > cfg.max_delay THEN cfg.max_delay ELSE d

\* async_retry after a failed attempt: the failure is final once max_retries
\* retries were made, and otherwise the operation is retried after a delay.
RetryExhausted(cfg, attempt) == attempt >= cfg.max_retries

\* A request that goes through the retry engine whatever the policy says.
UsesRetryAlways(cfg) == TRUE

\* llm.py 168: the request goes through the retry engine when the policy is enabled.
UsesRetry(cfg) == cfg.enabled

\* One request of generate about to be made under policy cfg.
RetryStart(cfg) ==
    [phase |-> "call", config |-> cfg, attempt |-> 0, invocations |-> 0,
     errors |-> <<>>, delays |-> <<>>, outcome |-> None]

\* llm.py 167-175: _make_api_request is invoked and its exchange ends. A result
\* is returned to generate. A failure propagates at once without the retry
\* engine (llm.py 175), and with it (llm.py 170-172) when the retries are
\* exhausted; otherwise the engine sleeps and calls again.
RequestAttempt(exchange) ==
    LET cfg == retry.config
        made == make_api_request(exchange, llm.model)
        tried == [retry EXCEPT !.invocations = @ + 1]
    IN  /\ retry.phase = "call"
        /\ retry' =
             IF ~made.raised
             THEN [tried EXCEPT !.phase = "done", !.outcome = Some(made)]
             ELSE LET failed == [tried EXCEPT !.errors = Append(@, made.error)]
                  IN  IF ~UsesRetry(cfg) \/ RetryExhausted(cfg, retry.attempt)
                      THEN [failed EXCEPT !.phase = "done", !.outcome = Some(made)]
                      ELSE [failed EXCEPT !.phase = "sleep",
                                          !.delays = Append(@, RetryDelay(cfg, retry.attempt))]
        /\ UNCHANGED <<config, llm, sessions, states, pending, reply, client, codec>>

\* The sleep between two attempts ends.
RequestRetry ==
    /\ retry.phase = "sleep"
    /\ retry' = [retry EXCEPT !.phase = "call", !.attempt = @ + 1]
    /\ UNCHANGED <<config, llm, sessions, states, pending, reply, client, codec>>

\* A server that has no session, whatever follows.
InitServer ==
    /\ config = [max_steps |-> MaxSteps, base_tools |-> <<"calculator">>,
                 workspace_tools |-> <<>>, workspace_dir |-> "./workspace"]
    /\ llm = [offline |-> FALSE, fake_call_counter |-> 0, model |-> "MiniMax-M2"]
    /\ sessions = <<>>
    /\ states = <<>>
    /\ pending = <<>>
    /\ reply = [n |-> 0, sessionId |-> "", stopReason |-> ""]
    /\ client = [prompts |-> 0, cancels |-> 0, sessions |-> 0, steps |-> 0, last |-> ""]

InitRetry ==
    /\ InitServer
    /\ retry \in {RetryStart(cfg) : cfg \in RetryConfigs}
    /\ codec = CodecIdle

NextRetry ==
    \/ \E exchange \in TransportOutcomes : RequestAttempt(exchange)
    \/ RequestRetry

\* One request of generate of a live client, under every retry policy.
SpecRetry == InitRetry /\ [][NextRetry]_vars

\* ---------------------------------------------------------------- the conversion of generate

\* The assistant messages the conversion is run on.
AssistantMessages ==
    {Message("assistant", content, thinking, tool_calls, None, None) :
        content \in {"", "co"},
        thinking \in {None, Some(""), Some("th")},
        tool_calls \in {None, Some(<<>>),
                        Some(<<ToolCall("call_1", "calculator", CalcArgs)>>),
                        Some(<<ToolCall("call_1", "bash", BashArgs),
                               ToolCall("call_2", "nosuch", <<>>)>>)}}

RECURSIVE ToolMessagesOf(_)
\* The tool messages that answer the calls of an assistant message.
ToolMessagesOf(calls) ==
    IF calls = <<>> THEN <<>>
    ELSE <<Message("tool", "result of " \o calls[1].id, None, None,
                   Some(calls[1].id), Some(calls[1].function.name))>>
         \o ToolMessagesOf(Tail(calls))

\* The conversations the conversion is run on: with no, one or an empty system
\* message, a user message, an assistant message and the results of its calls.
Conversations ==
    {prefix \o <<UserMessage("u"), m>>
        \o (IF TruthyOptList(m.tool_calls) THEN ToolMessagesOf(Val(m.tool_calls)) ELSE <<>>) :
        prefix \in {<<>>, <<SystemMessage("sys")>>, <<SystemMessage("")>>},
        m \in AssistantMessages}

\* llm.py 96-165: the conversation becomes the request payload.
CodecSerialise ==
    /\ codec.phase = "start"
    /\ codec' = [codec EXCEPT !.phase = "sent",
                              !.payload = Some(BuildPayload(llm.model, codec.messages,
                                                            Some(ToolSchemas(<<"calculator">>))))]
    /\ UNCHANGED <<config, llm, sessions, states, pending, reply, client, retry>>

\* The assistant turns of a payload whose content is a list of segments.
SegmentTurns(payload) ==
    {i \in 1..Len(payload.messages) :
        /\ payload.messages[i].role = "assistant"
        /\ payload.messages[i].content.kind = "blocks"}

\* The backend answers with exactly the segments of an assistant turn it was sent.
CodecEcho(i) ==
    /\ codec.phase = "sent"
    /\ i \in SegmentTurns(Val(codec.payload))
    /\ codec' = [codec EXCEPT
                    !.phase = "answered", !.echo = TRUE,
                    !.exchange = Some([raised |-> FALSE,
                                       result |-> [type |-> "message",
                                                   content |-> Val(codec.payload).messages[i].content.blocks,
                                                   stop_reason |-> "end_turn"]])]
    /\ UNCHANGED <<config, llm, sessions, states, pending, reply, client, retry>>

\* The longest segment list of a result the backend answers with.
MaxSegments == 3

\* The segments of those results: text, thinking (one empty), two tool
\* invocations, a segment of another type and a segment without a type.
Segments ==
    {TextBlock("a"), TextBlock("b"), ThinkingBlock("t"), ThinkingBlock(""),
     ToolUseBlock("toolu_8", "bash", BashArgs),
     ToolUseBlock("toolu_9", "calculator", CalcArgs),
     [type |-> "redacted_thinking", data |-> "x"],
     [text |-> "z"]}

SegmentLists == UNION {[1..n -> Segments] : n \in 0..MaxSegments}

\* Results with and without envelopes: a generic error envelope with and
\* without details; a message with a status envelope whose code is a success
\* code, null, missing, or another code.
CodecEnvelopes ==
    {[type |-> "error", error |-> [type |-> "invalid_request_error", message |-> "bad"],
      content |-> <<TextBlock("c")>>],
     [type |-> "error"],
     [type |-> "message", content |-> <<TextBlock("c")>>, base_resp |-> [status_msg |-> "ok"]]}
    \cup {[type |-> "message", content |-> <<TextBlock("c")>>, stop_reason |-> "end_turn",
           base_resp |-> [status_code |-> code, status_msg |-> "m"]] :
             code \in {Some(0), Some(1000), None, Some(1004), Some(1008), Some(2013)}}

\* The results the conversion is run on.
CodecResults ==
    {[type |-> "message", content |-> s, stop_reason |-> "end_turn"] : s \in SegmentLists}
    \cup CodecEnvelopes

\* What an exchange of the conversion yields.
CodecExchanges ==
    TransportOutcomes \cup {[raised |-> FALSE, result |-> r] : r \in CodecResults}

\* The backend answers with a result of its own, or the exchange fails.
CodecAnswer(exchange) ==
    /\ codec.phase = "sent"
    /\ codec' = [codec EXCEPT !.phase = "answered", !.exchange = Some(exchange)]
    /\ UNCHANGED <<config, llm, sessions, states, pending, reply, client, retry>>

\* llm.py 64-86, 177-209: the exchange is checked and its result parsed.
CodecParse ==
    /\ codec.phase = "answered"
    /\ codec' = [codec EXCEPT
                    !.phase = "parsed",
                    !.outcome = Some(GenerateResult(make_api_request(Val(codec.exchange),
                                                                     llm.model)))]
    /\ UNCHANGED <<config, llm, sessions, states, pending, reply, client, retry>>

InitCodec ==
    /\ InitServer
    /\ retry = RetryIdle
    /\ codec \in {[phase |-> "start", messages |-> c, payload |-> None, echo |-> FALSE,
                   exchange |-> None, outcome |-> None] : c \in Conversations}

NextCodec ==
    \/ CodecSerialise
    \/ \E i \in 1..Len(codec.messages) : CodecEcho(i)
    \/ \E exchange \in CodecExchanges : CodecAnswer(exchange)
    \/ CodecParse

\* One conversation sent by generate of a live client, and the answer parsed.
SpecCodec == InitCodec /\ [][NextCodec]_vars

\* ---------------------------------------------------------------- claims

Refs == 1..Len(states)

Dispatching(st) == st.pc \in {"dispatch", "execute"}

\* The calls of the batch a dispatching turn works on.
Batch(st) == Val(Val(st.response).tool_calls)

\* The index of the last user message: where the current turn began.
TurnStart(st) ==
    CHOOSE i \in 1..Len(st.messages) :
        /\ st.messages[i].role = "user"
        /\ \A j \in (i + 1)..Len(st.messages) : st.messages[j].role # "user"

\* C1: a prompt that names a session id which is not in the session table is
\* answered with stop reason refusal, and neither the table, nor any session
\* (conversation, flag, turn, model calls, updates), nor the model client changes.
C1_UnknownSessionRefused ==
    [][(client'.prompts = client.prompts + 1 /\ client'.last \notin DOMAIN sessions)
        => /\ reply' = [n |-> reply.n + 1, sessionId |-> client'.last, stopReason |-> "refusal"]
           /\ UNCHANGED <<sessions, states, pending, llm, config>>]_vars

\* A session exists, and a prompt for another id was refused.
C1_Witness ==
    /\ reply.n > 0 /\ reply.stopReason = "refusal"
    /\ reply.sessionId = client.last
    /\ reply.sessionId \notin DOMAIN sessions
    /\ DOMAIN sessions # {}

\* The tool messages of the first n calls of the batch follow the assistant
\* message at st.base, one per call in call order, with the call's id and name.
ToolMessagesFollow(messages, base, batch, n) ==
    /\ Len(messages) >= base + n
    /\ messages[base].role = "assistant"
    /\ messages[base].tool_calls = Some(batch)
    /\ \A i \in 1..n :
          /\ messages[base + i].role = "tool"
          /\ messages[base + i].tool_call_id = Some(batch[i].id)
          /\ messages[base + i].name = Some(batch[i].function.name)

\* C2: while the k calls of a response are dispatched, the conversation ends with
\* the tool messages of the calls done so far, one per call in call order, each
\* with the id and the name of its call; when the dispatch of the batch ends,
\* exactly k tool messages have been appended since the assistant message.
C2_OneToolMessagePerCall ==
    [][\A ref \in Refs :
          Dispatching(states[ref]) =>
            LET st == states[ref]
                st2 == states'[ref]
                k == Len(Batch(st))
            IN  /\ k >= 1
                /\ Len(st.messages) = st.base + st.idx - 1
                /\ ToolMessagesFollow(st.messages, st.base, Batch(st), st.idx - 1)
                /\ IF Dispatching(st2)
                   THEN /\ st2.base = st.base /\ Batch(st2) = Batch(st)
                        /\ st2.idx \in {st.idx, st.idx + 1}
                        /\ Len(st2.messages) = st.base + st2.idx - 1
                        /\ ToolMessagesFollow(st2.messages, st.base, Batch(st), st2.idx - 1)
                   ELSE /\ Len(st2.messages) = st.base + k
                        /\ ToolMessagesFollow(st2.messages, st.base, Batch(st), k)]_vars

\* A batch of two calls is done: the first named an unknown tool, the second
\* raised, and the turn has gone on to the next model call.
C2_Witness ==
    \E ref \in Refs :
        LET st == states[ref]
        IN  /\ st.pc = "generate" /\ st.step = 1
            /\ Len(st.messages) = st.base + 2
            /\ st.messages[st.base + 1].content = "Unknown tool: nosuch"
            /\ st.messages[st.base + 2].content = "Tool error: boom"

\* What C3 says of a turn whose flag is set when it reaches the head of a
\* further iteration: it stops there, with no further model call and no
\* message or update besides those of the batch just done.
CancelledBeforeStep(st, st2) ==
    (st.cancelled /\ Dispatching(st) /\ st2.step = st.step + 1 /\ st2.step < st.max_steps)
        => /\ st2.pc = "idle" /\ st2.stop = Some("cancelled")
           /\ st2.model_calls = st.model_calls
           /\ Len(st2.messages) = st.base + Len(Batch(st))
           /\ st2.messages[Len(st2.messages)].role = "tool"
           /\ \A i \in (Len(st.updates) + 1)..Len(st2.updates) :
                 st2.updates[i].sessionUpdate \in {"tool_call", "tool_call_update"}

\* C3 as stated: a cancel delivered during a turn, before the model call of the
\* step has returned, ends the turn with cancelled, with no assistant message
\* and no update of that step.
C3_AsStated ==
    [][\A ref \in Refs :
          LET st == states[ref]
              st2 == states'[ref]
          IN  /\ (st.cancelled /\ st.pc = "generate" /\ st2.pc # "generate")
                    => /\ st2.pc = "idle" /\ st2.stop = Some("cancelled")
                       /\ st2.messages = st.messages
                       /\ st2.updates = st.updates
              /\ CancelledBeforeStep(st, st2)]_vars

\* C3, amended: a cancel delivered during a turn, before the step starts or while
\* its model call is in flight, ends the turn with cancelled, with no assistant
\* message and no update of that step, unless the model call fails: then the turn
\* ends with refusal after the one error message update, and no assistant message
\* is appended either.
C3_CancelBeforeResponse ==
    [][\A ref \in Refs :
          LET st == states[ref]
              st2 == states'[ref]
          IN  /\ (st.cancelled /\ st.pc = "generate" /\ st2.pc # "generate")
                    => /\ st2.pc = "idle"
                       /\ st2.messages = st.messages
                       /\ st2.model_calls = st.model_calls
                       /\ \/ st2.stop = Some("cancelled") /\ st2.updates = st.updates
                          \/ /\ st2.stop = Some("refusal")
                             /\ Len(st2.updates) = Len(st.updates) + 1
                             /\ SubSeq(st2.updates, 1, Len(st.updates)) = st.updates
                             /\ st2.updates[Len(st2.updates)].sessionUpdate = "agent_message_chunk"
                             /\ SubSeq(st2.updates[Len(st2.updates)].text, 1, 7) = "Error: "
              /\ (st.cancelled /\ st.pc = "generate" /\ st2.pc # "generate"
                    /\ st2.response # st.response)
                    => st2.stop = Some("cancelled")
              /\ CancelledBeforeStep(st, st2)]_vars

\* A turn was cancelled while its second model call was in flight: it stopped
\* with the tool message of the first step as its last message.
C3_Witness ==
    \E ref \in Refs :
        LET st == states[ref]
        IN  /\ st.pc = "idle" /\ st.stop = Some("cancelled") /\ st.cancelled
            /\ st.model_calls = 2
            /\ st.messages[Len(st.messages)].role = "tool"

\* Every assistant message of the current turn carries tool calls.
OnlyToolCallResponses(st) ==
    \A i \in TurnStart(st)..Len(st.messages) :
        st.messages[i].role = "assistant" => TruthyOptList(st.messages[i].tool_calls)

\* C4: a turn never issues more than max_steps model calls; a turn that has
\* ended after responses with tool calls only, with no model call failed and no
\* cancel delivered, has issued exactly max_steps model calls and has ended with
\* max_turn_requests; and a turn that ended with max_turn_requests has issued
\* exactly max_steps model calls.
C4_StepBound ==
    \A ref \in Refs :
        LET st == states[ref]
        IN  /\ st.model_calls <= st.max_steps
            /\ (st.pc = "idle" /\ st.stop # None /\ OnlyToolCallResponses(st)
                  /\ st.stop # Some("refusal") /\ ~st.cancelled)
                  => (st.stop = Some("max_turn_requests") /\ st.model_calls = st.max_steps)
            /\ (st.pc = "idle" /\ st.stop = Some("max_turn_requests"))
                  => (st.model_calls = st.max_steps /\ st.step = st.max_steps)

\* A turn with max_steps = 2 has ended with max_turn_requests after two model
\* calls, each answered with tool calls.
C4_Witness ==
    \E ref \in Refs :
        LET st == states[ref]
        IN  /\ st.pc = "idle" /\ st.stop = Some("max_turn_requests")
            /\ st.max_steps = 2 /\ st.model_calls = 2
            /\ OnlyToolCallResponses(st) /\ ~st.cancelled
            /\ st.messages[Len(st.messages)].role = "tool"

\* The turn goes on after call st.idx of the batch: to the next call of the
\* batch, or, after the last one, to the head of the next iteration, where it
\* issues the next model call or stops for the step bound or a cancel.
TurnGoesOn(st, st2) ==
    IF st.idx < Len(Batch(st))
    THEN /\ st2.pc = "dispatch" /\ st2.idx = st.idx + 1 /\ st2.step = st.step
         /\ Batch(st2) = Batch(st)
    ELSE /\ st2.step = st.step + 1
         /\ \/ st2.pc = "generate" /\ st2.model_calls = st.model_calls + 1
            \/ /\ st2.pc = "idle" /\ st2.stop = Some("max_turn_requests")
               /\ st2.step = st.max_steps
            \/ st2.pc = "idle" /\ st2.stop = Some("cancelled") /\ st.cancelled

\* C9: a call that names a tool the session does not have executes nothing; its
\* finished update is failed and has the text "Unknown tool: <name>", which is
\* also the content of the tool message appended for the call (with the call's
\* id and name); and the turn goes on (TurnGoesOn): it does not stop with
\* refusal or end_turn.
C9_UnknownToolContained ==
    [][\A ref \in Refs :
          LET st == states[ref]
              st2 == states'[ref]
          IN  (/\ st.pc = "dispatch" /\ st2.updates # st.updates
               /\ \A i \in 1..Len(st.tools) : st.tools[i] # CurrentCall(st).function.name)
              => LET call == CurrentCall(st)
                     text == "Unknown tool: " \o call.function.name
                 IN  /\ st2.executed = st.executed
                     /\ StrIn("unknown tool", StrLower(text))
                     /\ StrIn(call.function.name, text)
                     /\ Len(st2.updates) = Len(st.updates) + 2
                     /\ st2.updates[Len(st.updates) + 1].sessionUpdate = "tool_call"
                     /\ st2.updates[Len(st.updates) + 1].toolCallId = call.id
                     /\ st2.updates[Len(st.updates) + 2]
                           = update_tool_call(call.id, "failed", text)
                     /\ st2.messages
                           = Append(st.messages, Message("tool", text, None, None,
                                                         Some(call.id), Some(call.function.name)))
                     /\ TurnGoesOn(st, st2)]_vars

\* The first call of a batch of two named an unknown tool and executed nothing;
\* the second was executed, and the turn went on to the next model call.
C9_Witness ==
    \E ref \in Refs :
        LET st == states[ref]
        IN  /\ st.pc = "generate" /\ st.step = 1
            /\ Len(st.messages) = st.base + 2
            /\ st.messages[st.base + 1].content = "Unknown tool: nosuch"
            /\ st.messages[st.base + 2].content = "ok"
            /\ st.executed = <<"toolu_2">>

\* What the claim expects of each outcome of execute: the status and the text.
ExpectedStatus(outcome) ==
    IF ~outcome.raised /\ outcome.success THEN "completed" ELSE "failed"

ExpectedTexts(outcome) ==
    IF outcome.raised THEN {"Tool error: " \o outcome.exc}
    ELSE IF outcome.success THEN {outcome.content}
    ELSE IF outcome.error # None THEN {Val(outcome.error)} ELSE {"Tool execution failed"}

\* C10: when execute of a known tool returns or raises, one finished update is
\* sent and one tool message appended for the call, both with the same text; the
\* status is completed exactly for a successful result, and failed with the
\* error text of an unsuccessful result ("Tool execution failed" without one) or
\* with "Tool error: <exception>" after an exception; and the turn goes on
\* (TurnGoesOn): no tool failure stops it with refusal.
C10_ToolFailureContained ==
    [][\A ref \in Refs :
          LET st == states[ref]
              st2 == states'[ref]
          IN  (st.pc = "execute" /\ st2.updates # st.updates)
              => LET call == CurrentCall(st)
                     finished == st2.updates[Len(st2.updates)]
                 IN  /\ Len(st2.updates) = Len(st.updates) + 1
                     /\ finished.sessionUpdate = "tool_call_update"
                     /\ finished.toolCallId = call.id
                     /\ \E outcome \in ToolOutcomes :
                           /\ finished.status = ExpectedStatus(outcome)
                           /\ finished.content \in ExpectedTexts(outcome)
                     /\ (finished.status = "completed") = (finished.content = "ok")
                     /\ st2.messages
                           = Append(st.messages, Message("tool", finished.content, None, None,
                                                         Some(call.id), Some(call.function.name)))
                     /\ st2.stop # Some("refusal")
                     /\ TurnGoesOn(st, st2)]_vars

\* A tool raised in the first step and the turn went on: its second model call
\* is in flight, with the failure as the last message of the conversation.
C10_Witness ==
    \E ref \in Refs :
        LET st == states[ref]
        IN  /\ st.pc = "generate" /\ st.step = 1
            /\ Len(st.messages) = st.base + 1
            /\ st.messages[st.base + 1].content = "Tool error: boom"
            /\ st.updates[Len(st.updates)].status = "failed"
            /\ st.executed = <<"toolu_1">>

\* The session has been prompted.
HasTurn(st) == \E i \in 1..Len(st.messages) : st.messages[i].role = "user"

\* The text of the prompt of the current (or last) turn.
TurnText(st) == st.messages[TurnStart(st)].content

HelloPrompt == "Say 'Hello, Mini Agent!'"

\* The outcome C7 describes: end_turn after one model call, the last message an
\* assistant message "Hello, Mini Agent!" without tool calls.
HelloOutcome(st) ==
    /\ st.pc = "idle" /\ st.stop = Some("end_turn")
    /\ st.model_calls = 1
    /\ Len(st.messages) = TurnStart(st) + 1
    /\ st.messages[Len(st.messages)]
          = Message("assistant", "Hello, Mini Agent!", None, None, None, None)

\* C7 as stated: offline, every prompt "Say 'Hello, Mini Agent!'" ends with
\* end_turn after one model call and the assistant message "Hello, Mini Agent!".
C7_AsStated ==
    \A ref \in Refs :
        (llm.offline /\ HasTurn(states[ref]) /\ TurnText(states[ref]) = HelloPrompt)
            => HelloOutcome(states[ref])

\* C7, amended: offline, on a session whose max_steps is at least 1, every prompt
\* "Say 'Hello, Mini Agent!'" ends with end_turn after one model call, and the
\* last message of the conversation is the assistant message "Hello, Mini
\* Agent!" without tool calls. (With max_steps = 0 the turn ends with
\* max_turn_requests and no model call.)
C7_HelloScenario ==
    \A ref \in Refs :
        LET st == states[ref]
        IN  (llm.offline /\ HasTurn(st) /\ TurnText(st) = HelloPrompt)
                => IF st.max_steps >= 1 THEN HelloOutcome(st)
                   ELSE /\ st.pc = "idle" /\ st.stop = Some("max_turn_requests")
                        /\ st.model_calls = 0
                        /\ Len(st.messages) = TurnStart(st)

\* The greeting was asked for and given.
C7_Witness ==
    \E ref \in Refs :
        LET st == states[ref]
        IN  /\ llm.offline /\ HasTurn(st) /\ TurnText(st) = HelloPrompt
            /\ st.max_steps >= 1 /\ HelloOutcome(st)
            /\ st.updates = <<update_agent_message("Hello, Mini Agent!")>>

CalcPrompt == "calculate 123 + 456"

\* The assistant messages of the current turn, in order.
TurnAssistants(st) ==
    SelectSeq(SubSeq(st.messages, TurnStart(st), Len(st.messages)),
              LAMBDA m : m.role = "assistant")

\* C8: offline and with a non-empty tool set, the first step of a turn prompted
\* "calculate 123 + 456" yields exactly one tool call, to calculator with
\* {operation: add, a: 123, b: 456}, and the next step of the turn gets a
\* response without tool calls, on which the turn ends with end_turn.
C8_CalculatorScenario ==
    \A ref \in Refs :
        LET st == states[ref]
        IN  (llm.offline /\ HasTurn(st) /\ TurnText(st) = CalcPrompt /\ st.tools # <<>>)
                => /\ st.model_calls >= 1 =>
                        /\ Len(Val(TurnAssistants(st)[1].tool_calls)) = 1
                        /\ Val(TurnAssistants(st)[1].tool_calls)[1].function
                              = [name |-> "calculator", arguments |-> CalcArgs]
                   /\ st.model_calls >= 2 =>
                        /\ TurnAssistants(st)[2].tool_calls = None
                        /\ st.pc = "idle" /\ st.stop = Some("end_turn")

\* C5: a request of generate that ends in failure has invoked the request
\* operation max_retries + 1 times when the retry policy is enabled, sleeping
\* before each retry, and exactly once and without any delay when it is
\* disabled; the failure that propagates is the one of the last invocation. No
\* request invokes the operation more often than that.
C5_RetryInvocations ==
    LET cfg == retry.config
        most == IF cfg.enabled THEN cfg.max_retries + 1 ELSE 1
    IN  retry.phase # "idle" =>
          /\ retry.invocations <= most
          /\ (retry.phase = "done" /\ Val(retry.outcome).raised) =>
                /\ retry.invocations = most
                /\ Len(retry.errors) = most
                /\ Len(retry.delays) = most - 1
                /\ Val(retry.outcome).error = retry.errors[most]

\* A request under an enabled policy with max_retries = 2 failed three times,
\* with different errors, and the third error is the one that propagated.
C5_Witness ==
    /\ retry.phase = "done" /\ retry.config.enabled /\ retry.config.max_retries = 2
    /\ Val(retry.outcome).raised
    /\ retry.invocations = 3
    /\ retry.errors[1] # retry.errors[3]
    /\ Val(retry.outcome).error = retry.errors[3]
    /\ retry.delays = <<1, 2>>

\* The assistant message of the conversation under conversion.
CodecAssistant ==
    codec.messages[CHOOSE i \in 1..Len(codec.messages) : codec.messages[i].role = "assistant"]

\* C6: an assistant message with non-empty thinking, non-empty content and one
\* tool call, serialised into segments that come back as the content of a
\* backend response, is parsed into a response with the same thinking, the same
\* content and one tool call with the same id, name and arguments.
C6_RoundTrip ==
    LET m == CodecAssistant
    IN  (/\ codec.phase = "parsed" /\ codec.echo
         /\ TruthyOptStr(m.thinking) /\ m.content # ""
         /\ TruthyOptList(m.tool_calls) /\ Len(Val(m.tool_calls)) = 1)
        => LET out == Val(codec.outcome)
           IN  /\ ~out.raised
               /\ out.response.thinking = m.thinking
               /\ out.response.content = m.content
               /\ out.response.tool_calls = m.tool_calls
               /\ Val(out.response.tool_calls)[1].id = Val(m.tool_calls)[1].id
               /\ Val(out.response.tool_calls)[1].function = Val(m.tool_calls)[1].function

\* The message with thinking "th", content "co" and the calculator call has
\* made the round trip.
C6_Witness ==
    /\ codec.phase = "parsed" /\ codec.echo
    /\ CodecAssistant = Message("assistant", "co", Some("th"),
                                Some(<<ToolCall("call_1", "calculator", CalcArgs)>>), None, None)
    /\ Val(codec.exchange).result.content
          = <<ThinkingBlock("th"), TextBlock("co"), ToolUseBlock("call_1", "calculator", CalcArgs)>>
    /\ Val(codec.outcome).response.tool_calls = CodecAssistant.tool_calls

\* The step is a prompt for the session that `ref` refers to.
PromptOn(ref) ==
    /\ client'.prompts = client.prompts + 1
    /\ client'.last \in DOMAIN sessions
    /\ sessions[client'.last] = ref

\* C11: when the model call of a step fails, the turn sends exactly one update,
\* a message update with the text "Error: <failure>", appends no message to the
\* conversation, issues no further model call and starts no tool, and stops with
\* refusal, which is what prompt answers; the session table is unchanged. A
\* later prompt on the session of a refused turn starts a turn as on any
\* session: flag reset, user message appended, and, max_steps allowing, the
\* first model call issued.
C11_ModelFailureRefusal ==
    [][\A ref \in Refs :
          LET st == states[ref]
              st2 == states'[ref]
          IN  /\ \A exchange \in TransportOutcomes :
                   LET made == make_api_request(exchange, llm.model)
                   IN  (made.raised /\ GenerateReturns(ref, exchange))
                         => /\ st2.pc = "idle" /\ st2.stop = Some("refusal")
                            /\ st2.updates = Append(st.updates,
                                                    update_agent_message("Error: " \o made.error))
                            /\ st2.messages = st.messages
                            /\ st2.model_calls = st.model_calls
                            /\ st2.executed = st.executed
                            /\ sessions' = sessions
                            /\ reply' = [n |-> reply.n + 1, sessionId |-> st.session_id,
                                         stopReason |-> "refusal"]
              /\ (st.pc = "idle" /\ st.stop = Some("refusal") /\ PromptOn(ref))
                   => /\ ~st2.cancelled
                      /\ Len(st2.messages) = Len(st.messages) + 1
                      /\ SubSeq(st2.messages, 1, Len(st.messages)) = st.messages
                      /\ st2.messages[Len(st2.messages)].role = "user"
                      /\ st2.updates = <<>>
                      /\ IF st.max_steps > 0
                         THEN st2.pc = "generate" /\ st2.model_calls = 1 /\ st2.stop = None
                         ELSE st2.pc = "idle" /\ st2.stop = Some("max_turn_requests")]_vars

\* The first turn of a session was refused for a failed model call, after the
\* one error update; the second prompt on the session has its model call in flight.
C11_Witness ==
    \E ref \in Refs :
        LET st == states[ref]
        IN  /\ st.pc = "generate" /\ st.model_calls = 1
            /\ Len(st.messages) = 3
            /\ st.messages[2].role = "user" /\ st.messages[3].role = "user"
            /\ reply = [n |-> 1, sessionId |-> st.session_id, stopReason |-> "refusal"]
            /\ sessions[st.session_id] = ref

StopReasons == {"end_turn", "refusal", "cancelled", "max_turn_requests"}

\* The step ends the turn of SessionState `ref`.
TurnEnds(ref) ==
    /\ states'[ref].pc = "idle"
    /\ states[ref].pc # "idle" \/ PromptOn(ref)

\* The safety part of C12: a turn ends with one of the four stop reasons, which
\* prompt answers once, at the step the turn ends and at no other; and from then
\* to the next prompt on the session there is no model call, no tool started,
\* no update and no change of the conversation or of the stop reason.
C12_StopIsFinal ==
    [][/\ \A ref \in Refs :
            LET st == states[ref]
                st2 == states'[ref]
            IN  /\ TurnEnds(ref)
                  => /\ st2.stop \in {Some(r) : r \in StopReasons}
                     /\ reply' = [n |-> reply.n + 1, sessionId |-> st.session_id,
                                  stopReason |-> Val(st2.stop)]
                /\ (st.pc = "idle" /\ ~PromptOn(ref))
                  => /\ st2.pc = "idle" /\ st2.stop = st.stop
                     /\ st2.messages = st.messages /\ st2.updates = st.updates
                     /\ st2.model_calls = st.model_calls /\ st2.executed = st.executed
       /\ reply' # reply
            => \/ \E ref \in Refs : TurnEnds(ref)
               \/ client'.prompts = client.prompts + 1 /\ client'.last \notin DOMAIN sessions]_vars

\* C12: every turn on a known session eventually ends, given that each model
\* call and each tool call it awaits returns or fails; it ends with exactly one
\* of the stop reasons end_turn, refusal, cancelled, max_turn_requests, and once
\* the stop reason is returned the turn calls no model, starts no tool, sends no
\* update and changes the conversation no more.
C12_TurnTerminates ==
    /\ C12_StopIsFinal
    /\ \A ref \in 1..MaxSessions :
          (ref \in Refs /\ states[ref].pc # "idle")
             ~> (/\ ref \in Refs /\ states[ref].pc = "idle"
                 /\ states[ref].stop \in {Some(r) : r \in StopReasons})

\* A turn has ended with end_turn on its second step, after a model call and a
\* tool call that it had to wait for, and prompt has answered end_turn.
C12_Witness ==
    \E ref \in Refs :
        LET st == states[ref]
        IN  /\ st.pc = "idle" /\ st.stop = Some("end_turn")
            /\ st.model_calls = 2 /\ Len(st.executed) >= 1
            /\ reply.sessionId = st.session_id /\ reply.stopReason = "end_turn"

\* What identifies an update: its kind, and the call id of a tool event or the
\* text of a thought or message.
UpdateKey(u) ==
    IF u.sessionUpdate \in {"tool_call", "tool_call_update"}
    THEN <<u.sessionUpdate, u.toolCallId>>
    ELSE <<u.sessionUpdate, u.text>>

\* The number of calls of the assistant message at index b that are done: the
\* tool messages that follow it.
DoneCalls(messages, b) ==
    LET k == IF TruthyOptList(messages[b].tool_calls) THEN Len(Val(messages[b].tool_calls)) ELSE 0
        tools(d) == \A j \in 1..d : b + j <= Len(messages) /\ messages[b + j].role = "tool"
    IN  CHOOSE d \in 0..k : tools(d) /\ (d = k \/ ~tools(d + 1))

\* The updates of the step whose assistant message is at index b, in the order
\* C13 gives: thought, message, and started then finished for each done call.
StepEvents(messages, b) ==
    LET m == messages[b]
        d == DoneCalls(messages, b)
    IN  (IF TruthyOptStr(m.thinking) THEN <<<<"agent_thought_chunk", Val(m.thinking)>>>> ELSE <<>>)
        \o (IF m.content # "" THEN <<<<"agent_message_chunk", m.content>>>> ELSE <<>>)
        \o [n \in 1..(2 * d) |->
               IF n % 2 = 1 THEN <<"tool_call", Val(m.tool_calls)[(n + 1) \div 2].id>>
               ELSE <<"tool_call_update", Val(m.tool_calls)[n \div 2].id>>]

RECURSIVE TurnEvents(_, _)
\* The updates of the steps whose assistant messages are at index i or later.
TurnEvents(messages, i) ==
    IF i > Len(messages) THEN <<>>
    ELSE (IF messages[i].role = "assistant" THEN StepEvents(messages, i) ELSE <<>>)
         \o TurnEvents(messages, i + 1)

\* C13: the updates of a turn are, step by step: the thought update if the
\* response has thinking text, then the message update if it has content text,
\* then for each dispatched call in call order its started update and, once it
\* is done, its finished update with the same call id, each exactly once and
\* with nothing in between two calls' pairs; a call that is executing has its
\* started update last. The only other update is the error message that ends a
\* refused turn.
C13_UpdateOrder ==
    \A ref \in Refs :
        LET st == states[ref]
        IN  HasTurn(st) =>
              LET expected == TurnEvents(st.messages, TurnStart(st))
                              \o (IF st.pc = "execute"
                                  THEN <<<<"tool_call", CurrentCall(st).id>>>> ELSE <<>>)
                  keys == [i \in 1..Len(st.updates) |-> UpdateKey(st.updates[i])]
              IN  IF st.pc = "idle" /\ st.stop = Some("refusal")
                  THEN /\ Len(keys) = Len(expected) + 1
                       /\ SubSeq(keys, 1, Len(expected)) = expected
                       /\ keys[Len(keys)][1] = "agent_message_chunk"
                  ELSE keys = expected

\* A step with thinking, content and two calls is done: six updates, thought,
\* message, and started and finished of the first call, then of the second.
C13_Witness ==
    \E ref \in Refs :
        LET st == states[ref]
        IN  /\ Len(st.updates) = 6
            /\ [i \in 1..6 |-> st.updates[i].sessionUpdate]
                  = <<"agent_thought_chunk", "agent_message_chunk", "tool_call",
                      "tool_call_update", "tool_call", "tool_call_update">>
            /\ st.updates[3].toolCallId = "toolu_1" /\ st.updates[4].toolCallId = "toolu_1"
            /\ st.updates[5].toolCallId = "toolu_2" /\ st.updates[6].toolCallId = "toolu_2"
            /\ st.updates[4].status = "completed" /\ st.updates[6].status = "failed"

\* The assistant message at index b is followed by exactly one tool message per
\* tool call, in call order and with the calls' ids, and then by no further
\* tool message.
AnsweredInOrder(messages, b) ==
    LET calls == IF TruthyOptList(messages[b].tool_calls) THEN Val(messages[b].tool_calls) ELSE <<>>
        k == Len(calls)
    IN  /\ b + k <= Len(messages)
        /\ \A j \in 1..k :
              /\ messages[b + j].role = "tool"
              /\ messages[b + j].tool_call_id = Some(calls[j].id)
        /\ b + k + 1 <= Len(messages) => messages[b + k + 1].role # "tool"

\* The tool message at index i answers a tool call of an earlier assistant message.
AnswersEarlierCall(messages, i) ==
    \E b \in 1..(i - 1) :
        /\ messages[b].role = "assistant"
        /\ TruthyOptList(messages[b].tool_calls)
        /\ \E j \in 1..Len(Val(messages[b].tool_calls)) :
              messages[i].tool_call_id = Some(Val(messages[b].tool_calls)[j].id)

\* A complete and consistent conversation.
ConsistentConversation(messages) ==
    \A i \in 1..Len(messages) :
        /\ messages[i].role = "assistant" => AnsweredInOrder(messages, i)
        /\ messages[i].role = "tool" => AnswersEarlierCall(messages, i)

\* C14: whenever a model call of a session is in flight, the conversation it was
\* given is complete and consistent: every assistant message with k tool calls
\* is followed immediately by exactly k tool messages with the ids of those
\* calls in order, and every tool message has the id of a tool call of an
\* earlier assistant message. (The client sends no prompt to a session whose
\* turn is running.)
C14_ConsistentAtModelCall ==
    \A ref \in Refs :
        states[ref].pc = "generate" => ConsistentConversation(states[ref].messages)

\* The second model call of a turn is in flight, after an assistant message with
\* two tool calls and their two tool messages.
C14_Witness ==
    \E ref \in Refs :
        LET st == states[ref]
        IN  /\ st.pc = "generate" /\ st.model_calls = 2
            /\ Len(st.messages) = 5
            /\ st.messages[3].role = "assistant" /\ Len(Val(st.messages[3].tool_calls)) = 2
            /\ st.messages[4].tool_call_id = Some("toolu_1")
            /\ st.messages[5].tool_call_id = Some("toolu_2")

\* The messages with role "user" among those after index n.
UsersAfter(messages, n) == {i \in (n + 1)..Len(messages) : messages[i].role = "user"}

\* C15: a prompt on a known session resets the session's flag and appends one
\* user message with the prompt's text to the end of the conversation, and no
\* other user message, before the first look at the flag and the first model
\* call: whatever the flag was, the turn does not stop with cancelled at its
\* start. The flag is set only by a cancel for the session, and a turn that
\* stops with cancelled was running with the flag set: the cancel came after
\* the prompt began.
C15_PromptResetsFlag ==
    [][/\ \A id \in DOMAIN sessions, blocks \in PromptBlocks :
            Prompt(id, blocks) =>
              LET st == states[sessions[id]]
                  st2 == states'[sessions[id]]
                  n == Len(st.messages)
              IN  /\ ~st2.cancelled
                  /\ Len(st2.messages) > n
                  /\ SubSeq(st2.messages, 1, n) = st.messages
                  /\ st2.messages[n + 1] = UserMessage(acp_to_text(blocks))
                  /\ UsersAfter(st2.messages, n) = {n + 1}
                  /\ st2.stop # Some("cancelled")
                  /\ st.max_steps > 0 => st2.model_calls = 1
       /\ \A ref \in Refs :
            LET st == states[ref]
                st2 == states'[ref]
            IN  /\ (~st.cancelled /\ st2.cancelled)
                  => /\ client'.cancels = client.cancels + 1
                     /\ client'.last = st.session_id
                /\ (TurnEnds(ref) /\ st2.stop = Some("cancelled"))
                  => (st.cancelled /\ st.pc # "idle")]_vars

\* The first turn of a session was cancelled, which left the flag set; the
\* second prompt on the session has reset it and its model call is in flight.
C15_Witness ==
    \E ref \in Refs :
        LET st == states[ref]
        IN  /\ st.pc = "generate" /\ ~st.cancelled /\ st.model_calls = 1
            /\ client.cancels = 1
            /\ reply = [n |-> 1, sessionId |-> st.session_id, stopReason |-> "cancelled"]
            /\ sessions[st.session_id] = ref
            /\ Cardinality(UsersAfter(st.messages, 0)) = 2

\* The step is a cancel.
CancelStep == client'.cancels = client.cancels + 1

\* C16 as stated: cancel sets the flag of the session it names and of no other,
\* and changes nothing at all when the id is unknown or the session is not
\* running a turn.
C16_AsStated ==
    [][CancelStep =>
         LET id == client'.last
         IN  /\ UNCHANGED <<sessions, pending, llm, reply, config>>
             /\ IF id \in DOMAIN sessions /\ states[sessions[id]].pc # "idle"
                THEN states' = [states EXCEPT ![sessions[id]].cancelled = TRUE]
                ELSE states' = states]_vars

\* C16, amended: cancel sets the flag of the session it names, running a turn or
\* not, and changes nothing else: no other field of that session, no other
\* session, no entry of the session table. With an unknown id it changes nothing.
C16_CancelFrame ==
    [][CancelStep =>
         LET id == client'.last
         IN  /\ UNCHANGED <<sessions, pending, llm, reply, config>>
             /\ IF id \in DOMAIN sessions
                THEN states' = [states EXCEPT ![sessions[id]].cancelled = TRUE]
                ELSE states' = states]_vars

\* Of two sessions, one that was never prompted has its flag set by a cancel
\* and the other has not.
C16_Witness ==
    /\ client.cancels = 1
    /\ \E ref \in Refs :
          /\ states[ref].pc = "idle" /\ states[ref].stop = None /\ states[ref].cancelled
          /\ \E other \in Refs \ {ref} : ~states[other].cancelled

\* The started updates among the updates.
StartedCalls(updates) ==
    SelectSeq(updates, LAMBDA u : u.sessionUpdate = "tool_call")

\* C17 as stated: a cancel does not interrupt what is in flight, and once the
\* flag is set in a running turn the turn issues no model call and starts no
\* tool call: all it still does is take the response of the model call in
\* flight or finish the tool call in flight.
C17_AsStated ==
    [][\A ref \in Refs :
          LET st == states[ref]
              st2 == states'[ref]
          IN  /\ CancelStep => st2.pc = st.pc
              /\ (st.cancelled /\ st.pc # "idle")
                   => /\ st2.model_calls = st.model_calls
                      /\ StartedCalls(st2.updates) = StartedCalls(st.updates)
                      /\ st2.executed = st.executed]_vars

\* C17, amended: a cancel does not interrupt what is in flight, and once the
\* flag is set in a running turn the turn issues no further model call. With a
\* model call in flight it stops when that call ends, with no message appended
\* and no tool started (cancelled, or refusal when the call failed). In the tool
\* loop it finishes the call in flight and also starts and finishes every
\* remaining call of the current batch, in order, and then stops with cancelled
\* (or with max_turn_requests when that was the last step).
C17_CancelBounded ==
    [][\A ref \in Refs :
          LET st == states[ref]
              st2 == states'[ref]
          IN  /\ CancelStep => st2.pc = st.pc
              /\ (st.cancelled /\ st.pc # "idle")
                   => /\ st2.model_calls = st.model_calls
                      /\ st2.pc # "generate" \/ st.pc = "generate"
                      /\ (st.pc = "generate" /\ st2.pc # "generate")
                           => /\ st2.pc = "idle"
                              /\ st2.stop \in {Some("cancelled"), Some("refusal")}
                              /\ st2.messages = st.messages
                              /\ st2.executed = st.executed
                      /\ (st.pc = "execute" /\ st2.pc # "execute")
                           => /\ Len(st2.messages) = Len(st.messages) + 1
                              /\ st2.messages[Len(st2.messages)].tool_call_id
                                    = Some(CurrentCall(st).id)
                      /\ (Dispatching(st) /\ Dispatching(st2))
                           => /\ Batch(st2) = Batch(st) /\ st2.base = st.base
                              /\ st2.idx \in {st.idx, st.idx + 1}
                      /\ (Dispatching(st) /\ ~Dispatching(st2))
                           => /\ st2.pc = "idle"
                              /\ Len(st2.messages) = st.base + Len(Batch(st))
                              /\ st2.stop = IF st.step + 1 < st.max_steps
                                            THEN Some("cancelled")
                                            ELSE Some("max_turn_requests")]_vars

\* A turn of up to two steps has stopped with cancelled after its first step:
\* the flag was set during the tool loop, both calls of the batch were started
\* and answered, and no second model call was issued.
C17_Witness ==
    \E ref \in Refs :
        LET st == states[ref]
        IN  /\ st.pc = "idle" /\ st.stop = Some("cancelled") /\ st.cancelled
            /\ st.max_steps = 2 /\ st.model_calls = 1
            /\ Len(StartedCalls(st.updates)) = 2
            /\ Len(st.messages) = st.base + 2

\* C18: the ids that newSession has returned differ from one another, each
\* returned id has its own entry in the session table, which refers to the
\* session created by the call that returned it, and the table has no other
\* entry: no call has replaced or removed the entry of an earlier session.
C18_UniqueSessionIds ==
    /\ \A i, j \in Refs : i # j => states[i].session_id # states[j].session_id
    /\ DOMAIN sessions = {states[ref].session_id : ref \in Refs}
    /\ \A ref \in Refs : sessions[states[ref].session_id] = ref

\* The stdio providers among the requested ones, in request order.
StdioProviders(requested) == SelectSeq(requested, LAMBDA s : s.type = "stdio")

RECURSIVE ConnectedTools(_, _)
\* The tools of the providers whose connect succeeded, in request order;
\* outcomes[i] is how the connect of the i-th stdio provider ended.
ConnectedTools(providers, outcomes) ==
    IF providers = <<>> THEN <<>>
    ELSE (IF outcomes[1][2] THEN providers[1].tools ELSE <<>>)
         \o ConnectedTools(Tail(providers), Tail(outcomes))

\* The elements of a sequence.
Range(seq) == {seq[i] : i \in 1..Len(seq)}

\* C19: every new-session request is either waiting for the connect of one of
\* its providers or has created its session, whatever the connects yielded. A
\* session has one connect outcome for each requested stdio provider, in request
\* order, and none for a provider of an unsupported type; its connections are
\* the providers that connected, and its tools are the base tools, the
\* workspace tools and the tools of the providers that connected, and no others.
C19_ProvidersNeverFatal ==
    /\ Len(states) + Len(pending) = client.sessions
    /\ \A i \in 1..Len(pending) : pending[i].servers # <<>>
    /\ \A ref \in Refs :
          LET st == states[ref]
              stdio == StdioProviders(st.requested)
              extra == ConnectedTools(stdio, st.outcomes)
          IN  /\ [i \in 1..Len(st.outcomes) |-> st.outcomes[i][1]]
                   = [i \in 1..Len(stdio) |-> stdio[i].name]
              /\ st.mcp_connections
                   = SelectSeq([i \in 1..Len(stdio) |-> stdio[i].name],
                               LAMBDA n : <<n, TRUE>> \in Range(st.outcomes))
              /\ Range(st.tools)
                   = Range(config.base_tools) \cup Range(config.workspace_tools) \cup Range(extra)
              /\ st.tools = DictKeys(config.base_tools \o config.workspace_tools \o extra, <<>>)

\* A session was created from a request for two stdio providers of which the
\* first did not connect and the second did: it has the second's connection
\* and tools and not the first's.
C19_Witness ==
    \E ref \in Refs :
        LET st == states[ref]
        IN  /\ st.outcomes = << <<"fs", FALSE>>, <<"sh", TRUE>> >>
            /\ st.mcp_connections = <<"sh">>
            /\ st.tools = <<"calculator", "read_file", "sh_run">>
            /\ st.session_id \in DOMAIN sessions

RECURSIVE CallIds(_)
\* The ids of the tool calls of the assistant messages, in conversation order.
CallIds(messages) ==
    IF messages = <<>> THEN <<>>
    ELSE (IF messages[1].role = "assistant" /\ TruthyOptList(messages[1].tool_calls)
          THEN [j \in 1..Len(Val(messages[1].tool_calls)) |-> Val(messages[1].tool_calls)[j].id]
          ELSE <<>>)
         \o CallIds(Tail(messages))

\* C20: what a session's turns leave in its conversation does not depend on
\* the turns of other sessions. Run alone against the offline client, a session
\* gets the tool call ids stub-1, stub-2, ... in the order of its own tool
\* calls; so it has the same ids when other sessions run as well.
C20_SessionsIndependent ==
    \A ref \in Refs :
        LET ids == CallIds(states[ref].messages)
        IN  ids = [i \in 1..Len(ids) |-> "stub-" \o ToString(i)]

\* The same statement for a server with one session, where it holds.
C20_Alone == Len(states) = 1 => C20_SessionsIndependent

\* C21: no failure leaves the turn: whatever fails during the turn of a prompt
\* on a known session, the turn ends with a stop reason that prompt returns,
\* and never with an exception.
C21_NoFailureEscapes ==
    \A ref \in Refs : states[ref].pc # "raised"

\* The positions of the assistant messages of a conversation. Offline, the
\* assistant message at position i is the response generate gave for the
\* conversation before it, messages[1..i-1], and the session's tool schemas.
AssistantAt(messages) == {i \in 1..Len(messages) : messages[i].role = "assistant"}

\* C22: the offline substitute is deterministic: two generate calls that were
\* given the same conversation and the same tool schemas, in one session or in
\* two, whatever was called in between, gave the same response: content,
\* thinking and tool calls with name, arguments and call id.
C22_OfflineDeterministic ==
    \A r1, r2 \in Refs :
        \A i \in AssistantAt(states[r1].messages), j \in AssistantAt(states[r2].messages) :
            (/\ states[r1].tools = states[r2].tools
             /\ SubSeq(states[r1].messages, 1, i - 1) = SubSeq(states[r2].messages, 1, j - 1))
                => states[r1].messages[i] = states[r2].messages[j]

\* The assistant message an offline generate call yields for a conversation.
OfflineAnswer(messages, tools, counter) ==
    LET response == FakeResponse(messages, Some(ToolSchemas(tools)), counter).response
    IN  Message("assistant", response.content, response.thinking, response.tool_calls, None, None)

\* C23: a session's conversation only grows at its end: in every step the old
\* conversation is a prefix of the new one, also in the steps that end a turn
\* with cancelled or refusal and in those of a later prompt. And every model
\* call is given the whole conversation in that order: the assistant message a
\* step of an offline client appends is the stub's answer to all the messages
\* before it.
C23_AppendOnly ==
    [][\A ref \in Refs :
          LET st == states[ref]
              st2 == states'[ref]
              n == Len(st.messages)
          IN  /\ Len(st2.messages) >= n
              /\ SubSeq(st2.messages, 1, n) = st.messages
              /\ llm.offline =>
                   \A i \in (n + 1)..Len(st2.messages) :
                       st2.messages[i].role = "assistant"
                          => st2.messages[i]
                               = OfflineAnswer(SubSeq(st2.messages, 1, i - 1), st.tools,
                                               llm.fake_call_counter)]_vars

\* A session has had two turns: its conversation is the system message and,
\* twice, a prompt and the answer to it, the second answer given to all four
\* messages before it.
C23_Witness ==
    \E ref \in Refs :
        LET st == states[ref]
        IN  /\ Len(st.messages) = 5
            /\ [i \in 1..5 |-> st.messages[i].role]
                  = <<"system", "user", "assistant", "user", "assistant">>
            /\ st.messages[2].content # st.messages[4].content
            /\ st.messages[5] = OfflineAnswer(SubSeq(st.messages, 1, 4), st.tools, 0)

\* The assistant message of a response.
AssistantOf(response) ==
    Message("assistant", response.content, response.thinking, response.tool_calls, None, None)

\* No call of the current batch has been started or answered.
NothingDispatched(st, st2) ==
    /\ st2.executed = st.executed
    /\ \A i \in 1..Len(st2.updates) :
           st2.updates[i].sessionUpdate \notin {"tool_call", "tool_call_update"}
              \/ i <= Len(st.updates)

\* C24: when a model call returns a response and the flag is not set, the step
\* appends exactly one message to the conversation, the assistant message with
\* the response's content, thinking and tool calls, and starts no tool in that
\* step; with tool calls the turn goes on to the first of them, without it ends
\* with end_turn. A turn ends with end_turn in no other step, and then the
\* assistant message of that response is the last message of the conversation.
C24_AssistantAppended ==
    [][\A ref \in Refs :
          LET st == states[ref]
              st2 == states'[ref]
          IN  /\ \A exchange \in TransportOutcomes :
                   LET made == make_api_request(exchange, llm.model)
                       response == GenerateResult(made).response
                   IN  (~made.raised /\ ~st.cancelled /\ GenerateReturns(ref, exchange))
                         => /\ st2.messages = Append(st.messages, AssistantOf(response))
                            /\ NothingDispatched(st, st2)
                            /\ IF TruthyOptList(response.tool_calls)
                               THEN st2.pc = "dispatch" /\ st2.idx = 1 /\ st2.stop = None
                               ELSE st2.pc = "idle" /\ st2.stop = Some("end_turn")
              /\ (TurnEnds(ref) /\ st2.stop = Some("end_turn"))
                    => /\ st.pc = "generate" /\ ~st.cancelled
                       /\ st2.response # None
                       /\ ~TruthyOptList(Val(st2.response).tool_calls)
                       /\ Len(st2.messages) = Len(st.messages) + 1
                       /\ st2.messages[Len(st2.messages)] = AssistantOf(Val(st2.response))]_vars

\* Both cases have happened in one turn: a response with tool calls was
\* accepted and its batch answered, and the next response, without tool calls,
\* ended the turn with end_turn, its assistant message last.
C24_Witness ==
    \E ref \in Refs :
        LET st == states[ref]
            n == Len(st.messages)
        IN  /\ st.pc = "idle" /\ st.stop = Some("end_turn")
            /\ st.model_calls = 2
            /\ st.messages[n] = AssistantOf(Val(st.response))
            /\ ~TruthyOptList(st.messages[n].tool_calls)
            /\ st.messages[n - 1].role = "tool"
            /\ \E i \in 1..(n - 2) :
                   /\ st.messages[i].role = "assistant"
                   /\ TruthyOptList(st.messages[i].tool_calls)

\* What a step has added to a sequence that only grows.
Added(old, new) == SubSeq(new, Len(old) + 1, Len(new))

\* The ids of the calls of the batch a turn is dispatching; none otherwise.
BatchIds(st) ==
    IF Dispatching(st) THEN {Batch(st)[j].id : j \in 1..Len(Batch(st))} ELSE {}

\* The update belongs to a call of the batch in progress.
BatchUpdate(st, u) ==
    /\ u.sessionUpdate \in {"tool_call", "tool_call_update"}
    /\ u.toolCallId \in BatchIds(st)

\* The updates are the one report of a failed model call.
ErrorReport(updates) ==
    /\ Len(updates) = 1
    /\ updates[1].sessionUpdate = update_agent_message("").sessionUpdate
    /\ Len(updates[1].text) >= 7 /\ SubSeq(updates[1].text, 1, 7) = "Error: "

\* What the flag, set in a running turn, leaves the turn to do apart from its
\* updates: no model call; no message but the tool messages of the batch in
\* progress; and when the turn stops, every call of that batch is answered and
\* the conversation is complete and consistent.
CancelledTurnWork(st, st2) ==
    /\ st2.model_calls = st.model_calls
    /\ st2.pc = "generate" => st.pc = "generate"
    /\ Len(st2.messages) >= Len(st.messages)
    /\ SubSeq(st2.messages, 1, Len(st.messages)) = st.messages
    /\ \A i \in 1..Len(Added(st.messages, st2.messages)) :
          LET m == Added(st.messages, st2.messages)[i]
          IN  m.role = "tool" /\ m.tool_call_id # None /\ Val(m.tool_call_id) \in BatchIds(st)
    /\ st2.pc = "idle"
          => /\ ConsistentConversation(st2.messages)
             /\ Dispatching(st)
                   => /\ Len(st2.messages) = st.base + Len(Batch(st))
                      /\ ToolMessagesFollow(st2.messages, st.base, Batch(st), Len(Batch(st)))

\* C25 as stated: once the flag is set in a running turn, the turn issues no
\* model call, and all it still does is dispatch the remaining calls of the
\* batch in progress, each with its tool message: every update it sends is an
\* update of a call of that batch.
C25_AsStated ==
    [][\A ref \in Refs :
          LET st == states[ref]
              st2 == states'[ref]
          IN  (st.cancelled /\ st.pc # "idle")
                 => /\ CancelledTurnWork(st, st2)
                    /\ \A i \in 1..Len(Added(st.updates, st2.updates)) :
                          BatchUpdate(st, Added(st.updates, st2.updates)[i])]_vars

\* C25, amended: once the flag is set in a running turn, the turn issues no
\* model call. It dispatches the remaining calls of the batch in progress, each
\* with its tool message, so that the turn stops on a complete and consistent
\* conversation; and when the model call in flight fails, it still sends the
\* error text of that call and stops with refusal. It sends no other update.
C25_NoCallAfterCancel ==
    [][\A ref \in Refs :
          LET st == states[ref]
              st2 == states'[ref]
              sent == Added(st.updates, st2.updates)
          IN  (st.cancelled /\ st.pc # "idle")
                 => /\ CancelledTurnWork(st, st2)
                    /\ \/ \A i \in 1..Len(sent) : BatchUpdate(st, sent[i])
                       \/ /\ st.pc = "generate" /\ st2.pc = "idle"
                          /\ st2.stop = Some("refusal")
                          /\ ErrorReport(sent)]_vars

\* The flag was set while the second model call of a turn was in flight, after
\* a batch of tool calls; the call failed, and the turn sent its error text and
\* stopped with refusal on a conversation that ends with the tool messages.
C25_Witness ==
    \E ref \in Refs :
        LET st == states[ref]
        IN  /\ st.pc = "idle" /\ st.cancelled /\ st.stop = Some("refusal")
            /\ st.model_calls = 2
            /\ st.messages[Len(st.messages)].role = "tool"
            /\ ErrorReport(<<st.updates[Len(st.updates)]>>)

\* The index of the assistant message in the conversation under conversion.
CodecAssistantAt ==
    CHOOSE i \in 1..Len(codec.messages) : codec.messages[i].role = "assistant"

\* The number of non-system messages among the first i messages: the position
\* message i has among the non-system messages.
TurnIndex(messages, i) ==
    Cardinality({j \in 1..i : messages[j].role # "system"})

\* C26: in the request built from a conversation, its assistant message is one
\* turn of role assistant. When the message has non-empty thinking or at least
\* one tool call, the turn's content is a list of segments: the thinking
\* segment first if the thinking is non-empty, then the text segment if the
\* content is non-empty, then one tool_use segment per tool call in call order
\* with the call's id, tool name and arguments, and nothing else. Otherwise the
\* turn's content is the message's content as plain text.
C26_AssistantSegments ==
    codec.phase # "start" =>
        LET m == CodecAssistant
            turns == Val(codec.payload).messages
            turn == turns[TurnIndex(codec.messages, CodecAssistantAt)]
            hasThinking == m.thinking # None /\ Val(m.thinking) # ""
            calls == IF m.tool_calls = None THEN <<>> ELSE Val(m.tool_calls)
            nT == IF hasThinking THEN 1 ELSE 0
            nC == IF m.content # "" THEN 1 ELSE 0
        IN  /\ Cardinality({i \in 1..Len(turns) : turns[i].role = "assistant"}) = 1
            /\ turn.role = "assistant"
            /\ IF hasThinking \/ calls # <<>>
               THEN /\ turn.content.kind = "blocks"
                    /\ LET b == turn.content.blocks
                       IN  /\ Len(b) = nT + nC + Len(calls)
                           /\ hasThinking
                                => b[1] = [type |-> "thinking", thinking |-> Val(m.thinking)]
                           /\ m.content # ""
                                => b[nT + 1] = [type |-> "text", text |-> m.content]
                           /\ \A j \in 1..Len(calls) :
                                 b[nT + nC + j] = [type |-> "tool_use", id |-> calls[j].id,
                                                   name |-> calls[j].function.name,
                                                   input |-> calls[j].function.arguments]
               ELSE turn.content = [kind |-> "text", text |-> m.content]

\* The message with thinking, content and two tool calls has been serialised
\* into four segments: thinking, text, and the two calls in order.
C26_Witness ==
    /\ codec.phase = "sent"
    /\ CodecAssistant.thinking = Some("th") /\ CodecAssistant.content = "co"
    /\ CodecAssistant.tool_calls # None /\ Len(Val(CodecAssistant.tool_calls)) = 2
    /\ LET b == Val(codec.payload).messages[TurnIndex(codec.messages, CodecAssistantAt)].content.blocks
       IN  /\ Len(b) = 4
           /\ <<b[1].type, b[2].type, b[3].type, b[4].type>>
                 = <<"thinking", "text", "tool_use", "tool_use">>
           /\ <<b[3].id, b[4].id>> = <<"call_1", "call_2">>

\* The number of messages of the conversation that are not system messages.
NonSystem(messages) == TurnIndex(messages, Len(messages))

\* C27: in the request built from a conversation, every tool message is exactly
\* one turn: the request has one turn per non-system message, and the turn at
\* the position the tool message has among the non-system messages has the
\* role user and, as its content, a list of a single tool_result segment with
\* the message's tool call id and its content.
C27_ToolResultTurn ==
    codec.phase # "start" =>
        LET turns == Val(codec.payload).messages
        IN  /\ Len(turns) = NonSystem(codec.messages)
            /\ \A i \in 1..Len(codec.messages) :
                  codec.messages[i].role = "tool"
                     => LET turn == turns[TurnIndex(codec.messages, i)]
                        IN  /\ turn.role = "user"
                            /\ turn.content.kind = "blocks"
                            /\ turn.content.blocks
                                  = <<[type |-> "tool_result",
                                       tool_use_id |-> codec.messages[i].tool_call_id,
                                       content |-> codec.messages[i].content]>>

\* A conversation with a system message and two tool messages has been
\* serialised: its last two turns are the tool results of call_1 and call_2.
C27_Witness ==
    /\ codec.phase = "sent"
    /\ Len(codec.messages) = 5
    /\ codec.messages[1].role = "system"
    /\ codec.messages[4].role = "tool" /\ codec.messages[5].role = "tool"
    /\ LET turns == Val(codec.payload).messages
       IN  /\ Len(turns) = 4
           /\ turns[3].content.blocks[1].tool_use_id = Some("call_1")
           /\ turns[4].content.blocks[1].tool_use_id = Some("call_2")
           /\ turns[4].content.blocks[1].content = "result of call_2"

\* The turns of the request are the non-system messages, one turn each and in
\* conversation order: a user or assistant message under its own role, a user
\* message with its text, a tool message under the role user.
TurnPerMessage(messages, turns) ==
    /\ Len(turns) = NonSystem(messages)
    /\ \A i \in 1..Len(turns) : turns[i].role \in {"user", "assistant"}
    /\ \A i \in 1..Len(messages) :
          messages[i].role # "system"
             => LET turn == turns[TurnIndex(messages, i)]
                IN  /\ turn.role = IF messages[i].role = "tool" THEN "user" ELSE messages[i].role
                    /\ messages[i].role = "user"
                          => turn.content = [kind |-> "text", text |-> messages[i].content]
                    /\ messages[i].role = "tool"
                          => turn.content.blocks[1].tool_use_id = messages[i].tool_call_id

\* C28 as stated: the request has one turn per user, assistant or tool message,
\* in conversation order, and none for a system message; its system text is the
\* text of the leading system message, and it has none exactly when the
\* conversation has no system message.
C28_AsStated ==
    codec.phase # "start" =>
        LET payload == Val(codec.payload)
        IN  /\ TurnPerMessage(codec.messages, payload.messages)
            /\ payload.system = IF codec.messages[1].role = "system"
                                THEN Some(codec.messages[1].content)
                                ELSE None

\* C28, amended: the request has one turn per user, assistant or tool message,
\* in conversation order, and none for a system message; its system text is the
\* text of the leading system message when that text is not empty, and it has
\* no system text when the conversation has no system message or the text of
\* its system message is empty.
C28_SystemSeparated ==
    codec.phase # "start" =>
        LET payload == Val(codec.payload)
        IN  /\ TurnPerMessage(codec.messages, payload.messages)
            /\ payload.system = IF /\ codec.messages[1].role = "system"
                                   /\ codec.messages[1].content # ""
                                THEN Some(codec.messages[1].content)
                                ELSE None

\* A conversation that begins with the system message "sys" has been
\* serialised: the request has that system text and three turns, of the user
\* message, the assistant message and the tool message.
C28_Witness ==
    /\ codec.phase = "sent"
    /\ codec.messages[1] = SystemMessage("sys")
    /\ Len(codec.messages) = 4
    /\ Val(codec.payload).system = Some("sys")
    /\ [i \in 1..3 |-> Val(codec.payload).messages[i].role] = <<"user", "assistant", "user">>
    /\ Val(codec.payload).messages[1].content = [kind |-> "text", text |-> "u"]

\* The text begins with the prefix.
StartsWith(text, prefix) ==
    Len(text) >= Len(prefix) /\ SubSeq(text, 1, Len(prefix)) = prefix

\* The result is a generic error envelope.
GenericError(result) == "type" \in DOMAIN result /\ result.type = "error"

\* The result has a status envelope with a code that is not null and not a
\* success code.
StatusError(result) ==
    /\ "base_resp" \in DOMAIN result
    /\ "status_code" \in DOMAIN result.base_resp
    /\ result.base_resp.status_code # None
    /\ Val(result.base_resp.status_code) \notin {0, 1000}

\* C29: of a result that is a generic error envelope, or that has a status
\* envelope with a code that is neither null nor a success code, generate makes
\* a failure and no response, whatever content the result has: the failure
\* names the error type and message of the envelope, or the code and the status
\* message. Every other result is parsed: generate returns the response parsed
\* from it. A failed exchange fails the call with its own error.
C29_EnvelopeBeforeParse ==
    codec.phase = "parsed" =>
        LET exchange == Val(codec.exchange)
            out == Val(codec.outcome)
        IN  IF exchange.raised
            THEN out = exchange
            ELSE LET result == exchange.result
                 IN  IF GenericError(result) \/ StatusError(result)
                     THEN /\ out.raised
                          /\ "response" \notin DOMAIN out
                          /\ GenericError(result) /\ "error" \in DOMAIN result
                                => out.error = "API Error (" \o result.error.type \o "): "
                                                  \o result.error.message
                          /\ ~GenericError(result)
                                => StartsWith(out.error,
                                              "MiniMax API Error (code "
                                                 \o ToString(Val(result.base_resp.status_code))
                                                 \o "): " \o result.base_resp.status_msg)
                     ELSE /\ ~out.raised
                          /\ out.response = ParseResponse(result)

\* A result with a text segment and a status envelope of code 1004 has made
\* the call fail with the error that names the code and the status message.
C29_Witness ==
    /\ codec.phase = "parsed"
    /\ ~Val(codec.exchange).raised
    /\ LET result == Val(codec.exchange).result
       IN  /\ "content" \in DOMAIN result /\ result.content = <<TextBlock("c")>>
           /\ StatusError(result)
           /\ result.base_resp.status_code = Some(1004)
    /\ Val(codec.outcome) = [raised |-> TRUE, error |-> "MiniMax API Error (code 1004): m"]

\* The segments of a type, in segment order.
SegmentsOf(blocks, type) ==
    SelectSeq(blocks, LAMBDA b : "type" \in DOMAIN b /\ b.type = type)

RECURSIVE Joined(_, _)
\* The texts under `key` of the segments, one after the other.
Joined(blocks, key) ==
    IF blocks = <<>> THEN "" ELSE blocks[1][key] \o Joined(Tail(blocks), key)

\* C30: the response generate returns for a result that passed the envelope
\* check has, as content, the texts of the result's text segments joined in
\* segment order; as thinking, the texts of its thinking segments joined in
\* order, and no thinking when that is the empty text; as tool calls, one call
\* per tool_use segment, in order, with the segment's id, name and input, and
\* no tool calls when there is no such segment. A segment of another type, or
\* of no type, contributes nothing.
C30_ParsedResponse ==
    (codec.phase = "parsed" /\ ~Val(codec.outcome).raised) =>
        LET result == Val(codec.exchange).result
            blocks == IF "content" \in DOMAIN result THEN result.content ELSE <<>>
            response == Val(codec.outcome).response
            text == Joined(SegmentsOf(blocks, "text"), "text")
            thinking == Joined(SegmentsOf(blocks, "thinking"), "thinking")
            uses == SegmentsOf(blocks, "tool_use")
        IN  /\ response.content = text
            /\ response.thinking = IF thinking = "" THEN None ELSE Some(thinking)
            /\ response.tool_calls
                  = IF uses = <<>> THEN None
                    ELSE Some([j \in 1..Len(uses) |->
                                 ToolCall(uses[j].id, uses[j].name, uses[j].input)])

\* A result has been parsed that is either two tool invocations around a
\* segment of another type, giving the two calls in segment order and nothing
\* else, or two text segments after an empty thinking segment, giving the
\* content "ba" and no thinking.
C30_Witness ==
    /\ codec.phase = "parsed"
    /\ ~Val(codec.exchange).raised
    /\ ~Val(codec.outcome).raised
    /\ LET blocks == Val(codec.exchange).result.content
           response == Val(codec.outcome).response
       IN  \/ /\ blocks = <<ToolUseBlock("toolu_9", "calculator", CalcArgs),
                            [type |-> "redacted_thinking", data |-> "x"],
                            ToolUseBlock("toolu_8", "bash", BashArgs)>>
              /\ response.content = "" /\ response.thinking = None
              /\ response.tool_calls = Some(<<ToolCall("toolu_9", "calculator", CalcArgs),
                                             ToolCall("toolu_8", "bash", BashArgs)>>)
           \/ /\ blocks = <<ThinkingBlock(""), TextBlock("b"), TextBlock("a")>>
              /\ response.content = "ba" /\ response.thinking = None
              /\ response.tool_calls = None

\* The rendering of a value as a label shows it.
Rendered(value) ==
    LET text == Repr(value)
    IN  IF Len(text) > 48 THEN SubSeq(text, 1, 45) \o "..." ELSE text

\* C31: the started update of a tool call has as its title the name of the
\* tool, "(", the first three arguments of the call in the order of the
\* mapping, each as key=value and joined by ", ", and ")": for a call without
\* arguments the name and "()". A value is shown as its repr when that has at
\* most 48 characters, and otherwise as the first 45 characters of it and
\* "..."; so no value takes more than 48 characters of the label. The title is
\* the same for a tool the agent has and for one it has not. (The step that
\* starts a call is every step of a turn at the head of its tool loop other
\* than a cancel.)
C31_ToolLabel ==
    [][\A ref \in Refs :
          (states[ref].pc = "dispatch" /\ states'[ref] # states[ref] /\ ~CancelStep)
             => LET call == CurrentCall(states[ref])
                    args == call.function.arguments
                    shown == SubSeq(args, 1, IF Len(args) < 3 THEN Len(args) ELSE 3)
                    parts == [i \in 1..Len(shown) |-> shown[i][1] \o "=" \o Rendered(shown[i][2])]
                    started == Added(states[ref].updates, states'[ref].updates)[1]
                IN  /\ Len(states'[ref].updates) > Len(states[ref].updates)
                    /\ started.sessionUpdate = "tool_call"
                    /\ started.toolCallId = call.id
                    /\ started.rawInput = args
                    /\ started.title = call.function.name \o "(" \o StrJoin(", ", parts) \o ")"
                    /\ args = <<>> => started.title = call.function.name \o "()"
                    /\ \A i \in 1..Len(args) :
                          /\ Len(Rendered(args[i][2])) <= 48
                          /\ Len(Repr(args[i][2])) <= 48 => Rendered(args[i][2]) = Repr(args[i][2])]_vars

\* The call of an unknown tool with four arguments has been started: the label
\* shows the first three, the first cut to 45 characters and "...", the second,
\* of 48 characters, whole.
C31_Witness ==
    \E ref \in Refs :
        \E i \in 1..Len(states[ref].updates) :
            LET u == states[ref].updates[i]
            IN  /\ u.sessionUpdate = "tool_call"
                /\ Len(u.rawInput) = 4
                /\ u.rawInput[1][2].t = "str" /\ u.rawInput[1][2].v = Str47
                /\ u.rawInput[2][2].t = "str" /\ u.rawInput[2][2].v = Str46
                /\ u.title = "nosuch(q='abcdefghijabcdefghijabcdefghijabcdefghijabcd..., b='abcdefghijabcdefghijabcdefghijabcdefghijabcdef', z=False)"

====
